---- MODULE Spec2Model ----
(***************************************************************************)
(* A model of the go-tpm2 command dispatcher and packet codec:             *)
(*   - the packet codec of command.go (byte level),                        *)
(*   - the retry loop of TPMContext.RunCommand (tpm.go),                   *)
(*   - the pending-response latch and exclusive-audit tracking of          *)
(*     execContext (tpm.go),                                               *)
(*   - execMultipleHelper / readMultipleHelper (tpm.go),                   *)
(*   - policyutil: Policy.ComputeFor and Policy.Execute with branch nodes, *)
(*     tickets and the resources loaded for an assertion,                  *)
(*   - StartAuthSession (cmds_session.go),                                 *)
(*   - ContextSave / ContextLoad of a session context.                     *)
(* Each subsystem has its own specification over the shared variables.     *)
(***************************************************************************)
EXTENDS Integers, Sequences, FiniteSets, TLC

VARIABLES
    codec,                  \* last codec call: [op, ...inputs, out]
    maxSubmissions,         \* TPMContext.maxSubmissions
    run,                    \* the TPMContext.RunCommand call in progress / finished
    pendingResponse,        \* execContext.pendingResponse (0 = nil)
    lastExclusiveSession,   \* execContext.lastExclusiveSession (0 = nil)
    sessionData,            \* session id -> SessionData (IsExclusive)
    rsps,                   \* the rspContext values handed out so far
    call,                   \* the last execContext call: what it did, in code order
    multi,                  \* the execMultipleHelper call in progress / finished
    pol,                    \* the Policy.Execute call made (policyutil)
    tkt,                    \* Policy.Execute calls on one session with tickets
    res,                    \* Policy.Execute with resources to load (policyutil)
    sas,                    \* the StartAuthSession call made (cmds_session.go)
    ctx,                    \* a session HandleContext through ContextSave / ContextLoad
    dup,                    \* a sensitive area through SensitiveToDuplicate / DuplicateToSensitive
    qn,                     \* a qualified name computed whole and in two parts (package util)
    att,                    \* session contexts and the last attribute method called on one
    hc,                     \* TPM objects and the handle contexts of a caller (FlushContext, EvictControl)
    wire,                   \* a value through mu.MarshalToBytes / mu.UnmarshalFromBytes
    ser,                    \* a handle context through SerializeToBytes / CreateHandleContextFromBytes
    cmp,                    \* a policy, the digests stored on it, and the results of ComputeFor / Validate
    bpath,                  \* a PolicyBranchPath popped component by component
    props,                  \* TPMContext property fields and the last InitProperties call
    ln,                     \* a tpmPolicyResources.LoadName call, frame by frame
    epr                     \* an executePolicyResources instance and the last call made on it

vars == << codec, maxSubmissions, run, pendingResponse, lastExclusiveSession,
           sessionData, rsps, call, multi, pol, tkt, res, sas, ctx, dup, qn, att, hc, wire, ser, cmp, bpath, props, ln, epr >>

\* ------------------------------------------------------------------------
\* Wire primitives (package mu): big-endian fixed-width integers and
\* u16-prefixed sized buffers.
\* ------------------------------------------------------------------------

U16(n) == << (n \div 256) % 256, n % 256 >>

U32(n) == << (n \div 16777216) % 256, (n \div 65536) % 256, (n \div 256) % 256, n % 256 >>

Sized(b) == U16(Len(b)) \o b

\* A reader is a position pos (next byte to read, 1-based) in a byte sequence
\* p, limited to the bytes up to index lim.  Every Read* returns
\* [ok, val, pos]; ok = FALSE models the io.EOF / io.ErrUnexpectedEOF error.
ReadFail == [ok |-> FALSE, val |-> 0, pos |-> 0]

ReadU8(p, pos, lim) ==
    IF pos > lim THEN ReadFail
    ELSE [ok |-> TRUE, val |-> p[pos], pos |-> pos + 1]

ReadU16(p, pos, lim) ==
    IF pos + 1 > lim THEN ReadFail
    ELSE [ok |-> TRUE, val |-> p[pos] * 256 + p[pos + 1], pos |-> pos + 2]

\* A uint32 of 2^31 or more is read as 2^31 - 1: the codec only compares such
\* fields with lengths and with Success, all far below it.
ReadU32(p, pos, lim) ==
    IF pos + 3 > lim THEN ReadFail
    ELSE [ok |-> TRUE,
          val |-> IF p[pos] >= 128 THEN 2147483647
                  ELSE ((p[pos] * 256 + p[pos + 1]) * 256 + p[pos + 2]) * 256 + p[pos + 3],
          pos |-> pos + 4]

ReadBytes(p, pos, lim, n) ==
    IF n > lim - pos + 1 THEN ReadFail
    ELSE [ok |-> TRUE, val |-> SubSeq(p, pos, pos + n - 1), pos |-> pos + n]

ReadSized(p, pos, lim) ==
    LET n == ReadU16(p, pos, lim)
    IN  IF ~n.ok THEN ReadFail ELSE ReadBytes(p, n.pos, lim, n.val)

\* ------------------------------------------------------------------------
\* Program constants
\* ------------------------------------------------------------------------

maxResponseSize == 4096

MaxAuths == 3

HeaderSize == 10

HandleSize == 4

TagNoSessions == 32769

TagSessions == 32770

TagRspCommand == 196

Success == 0

\* ------------------------------------------------------------------------
\* Packet codec (command.go)
\* ------------------------------------------------------------------------

Min(a, b) == IF a < b THEN a ELSE b

\* AuthCommand on the wire: sessionHandle u32, nonce TPM2B, attributes u8,
\* hmac TPM2B.
MarshalAuthCommand(a) ==
    U32(a.SessionHandle) \o Sized(a.Nonce) \o << a.SessionAttributes >> \o Sized(a.HMAC)

\* AuthResponse on the wire: nonce TPM2B, attributes u8, hmac TPM2B.
MarshalAuthResponse(a) ==
    Sized(a.Nonce) \o << a.SessionAttributes >> \o Sized(a.HMAC)

UnmarshalAuthCommand(p, pos, lim) ==
    LET h == ReadU32(p, pos, lim)
        n == ReadSized(p, h.pos, lim)
        a == ReadU8(p, n.pos, lim)
        m == ReadSized(p, a.pos, lim)
    IN  IF ~h.ok THEN ReadFail
        ELSE IF ~n.ok THEN ReadFail
        ELSE IF ~a.ok THEN ReadFail
        ELSE IF ~m.ok THEN ReadFail
        ELSE [ok |-> TRUE,
              val |-> [SessionHandle |-> h.val, Nonce |-> n.val,
                       SessionAttributes |-> a.val, HMAC |-> m.val],
              pos |-> m.pos]

UnmarshalAuthResponse(p, pos, lim) ==
    LET n == ReadSized(p, pos, lim)
        a == ReadU8(p, n.pos, lim)
        m == ReadSized(p, a.pos, lim)
    IN  IF ~n.ok THEN ReadFail
        ELSE IF ~a.ok THEN ReadFail
        ELSE IF ~m.ok THEN ReadFail
        ELSE [ok |-> TRUE,
              val |-> [Nonce |-> n.val, SessionAttributes |-> a.val, HMAC |-> m.val],
              pos |-> m.pos]

\* command.go:105-109: every entry of authArea is written, whatever their number.
RECURSIVE MarshalAuthArea(_)
MarshalAuthArea(authArea) ==
    IF authArea = << >> THEN << >>
    ELSE MarshalAuthCommand(Head(authArea)) \o MarshalAuthArea(Tail(authArea))

\* MarshalCommandPacket with the authSize field written for an empty auth area
\* too.
MarshalCommandPacketAlwaysAuthSize(command, handles, authArea, parameters) ==
    LET aBytes == MarshalAuthArea(authArea)
        tag == IF Len(authArea) > 0 THEN TagSessions ELSE TagNoSessions
        payload == handles \o U32(Len(aBytes)) \o aBytes \o parameters
    IN  U16(tag) \o U32(HeaderSize + Len(payload)) \o U32(command) \o payload

MarshalCommandPacket(command, handles, authArea, parameters) ==
    LET aBytes == MarshalAuthArea(authArea)
        tag == IF Len(authArea) > 0 THEN TagSessions ELSE TagNoSessions
        payload ==
            IF Len(authArea) > 0
            THEN handles \o U32(Len(aBytes)) \o aBytes \o parameters
            ELSE handles \o parameters
    IN  U16(tag) \o U32(HeaderSize + Len(payload)) \o U32(command) \o payload

\* The auth-area loop of UnmarshalPayload (command.go:68-80).  n is the
\* io.LimitedReader's N, the bytes it still allows; the underlying buffer
\* ends at Len(p).
RECURSIVE UnmarshalCommandAuths(_, _, _, _)
UnmarshalCommandAuths(p, pos, n, acc) ==
    IF n <= 0 THEN [err |-> "", val |-> acc, pos |-> pos]
    ELSE IF Len(acc) >= MaxAuths
    THEN [err |-> "trailing byte(s) in auth area", val |-> << >>, pos |-> pos]
    ELSE LET a == UnmarshalAuthCommand(p, pos, pos + Min(n, Len(p) - pos + 1) - 1)
         IN  IF ~a.ok
             THEN [err |-> "cannot unmarshal auth", val |-> << >>, pos |-> pos]
             ELSE UnmarshalCommandAuths(p, a.pos, n - (a.pos - pos), Append(acc, a.val))

\* The auth entries a command auth area holds, read without any limit on
\* their number (used to state what a packet carries).
RECURSIVE UnmarshalCommandAuthsUnlimited(_, _, _, _)
UnmarshalCommandAuthsUnlimited(p, pos, n, acc) ==
    IF n <= 0 THEN [err |-> "", val |-> acc, pos |-> pos]
    ELSE LET a == UnmarshalAuthCommand(p, pos, pos + Min(n, Len(p) - pos + 1) - 1)
         IN  IF ~a.ok
             THEN [err |-> "cannot unmarshal auth", val |-> << >>, pos |-> pos]
             ELSE UnmarshalCommandAuthsUnlimited(p, a.pos, n - (a.pos - pos),
                                                 Append(acc, a.val))

PayloadError(e) == [handles |-> << >>, authArea |-> << >>, parameters |-> << >>, err |-> e]

\* CommandPacket.UnmarshalPayload (command.go:45-92)
UnmarshalPayload(p, numHandles) ==
    IF Len(p) < HeaderSize THEN PayloadError("cannot unmarshal header")
    ELSE LET tag == ReadU16(p, 1, Len(p)).val
             commandSize == ReadU32(p, 3, Len(p)).val
             h == ReadBytes(p, HeaderSize + 1, Len(p), numHandles * HandleSize)
         IN  IF commandSize # Len(p) THEN PayloadError("invalid commandSize value")
             ELSE IF ~h.ok THEN PayloadError("cannot read handles")
             ELSE IF tag = TagSessions
             THEN LET authSize == ReadU32(p, h.pos, Len(p))
                      as == UnmarshalCommandAuths(p, authSize.pos, authSize.val, << >>)
                  IN  IF ~authSize.ok THEN PayloadError("cannot unmarshal auth area size")
                      ELSE IF as.err # "" THEN PayloadError(as.err)
                      ELSE [handles |-> h.val, authArea |-> as.val,
                            parameters |-> SubSeq(p, as.pos, Len(p)), err |-> ""]
             ELSE IF tag = TagNoSessions
             THEN [handles |-> h.val, authArea |-> << >>,
                   parameters |-> SubSeq(p, h.pos, Len(p)), err |-> ""]
             ELSE PayloadError("invalid tag")

\* The auth-area loop of ResponsePacket.Unmarshal (command.go:189-200).
RECURSIVE UnmarshalResponseAuths(_, _, _)
UnmarshalResponseAuths(p, pos, acc) ==
    IF pos > Len(p) THEN [err |-> "", val |-> acc]
    ELSE IF Len(acc) >= MaxAuths THEN [err |-> "trailing byte(s)", val |-> << >>]
    ELSE LET a == UnmarshalAuthResponse(p, pos, Len(p))
         IN  IF ~a.ok THEN [err |-> "cannot unmarshal auth", val |-> << >>]
             ELSE UnmarshalResponseAuths(p, a.pos, Append(acc, a.val))

ResponseError(rc, e) ==
    [rc |-> rc, handles |-> << >>, parameters |-> << >>, authArea |-> << >>, err |-> e]

\* ResponsePacket.Unmarshal without the comparison of responseSize with the
\* length of the packet.
UnmarshalAnyResponseSize(p, numHandles) ==
    IF Len(p) > maxResponseSize THEN ResponseError(0, "packet too large")
    ELSE IF Len(p) < HeaderSize THEN ResponseError(0, "cannot unmarshal header")
    ELSE LET tag == ReadU16(p, 1, Len(p)).val
             responseSize == ReadU32(p, 3, Len(p)).val
             responseCode == ReadU32(p, 7, Len(p)).val
             h == ReadBytes(p, HeaderSize + 1, Len(p), numHandles * HandleSize)
         IN  IF responseCode # Success
             THEN IF Len(p) > HeaderSize
                  THEN ResponseError(responseCode, "trailing byte(s)")
                  ELSE ResponseError(responseCode, "")
             ELSE IF ~h.ok THEN ResponseError(0, "cannot read handles")
             ELSE IF tag = TagSessions
             THEN LET parameterSize == ReadU32(p, h.pos, Len(p))
                      params == ReadBytes(p, parameterSize.pos, Len(p), parameterSize.val)
                      as == UnmarshalResponseAuths(p, params.pos, << >>)
                  IN  IF ~parameterSize.ok
                      THEN ResponseError(0, "cannot unmarshal parameterSize")
                      ELSE IF ~params.ok THEN ResponseError(0, "cannot read parameters")
                      ELSE IF as.err # "" THEN ResponseError(0, as.err)
                      ELSE [rc |-> Success, handles |-> h.val, parameters |-> params.val,
                            authArea |-> as.val, err |-> ""]
             ELSE IF tag = TagNoSessions
             THEN [rc |-> Success, handles |-> h.val,
                   parameters |-> SubSeq(p, h.pos, Len(p)), authArea |-> << >>, err |-> ""]
             ELSE ResponseError(0, "invalid tag")

\* ResponsePacket.Unmarshal (command.go:149-211)
Unmarshal(p, numHandles) ==
    IF Len(p) > maxResponseSize THEN ResponseError(0, "packet too large")
    ELSE IF Len(p) < HeaderSize THEN ResponseError(0, "cannot unmarshal header")
    ELSE LET tag == ReadU16(p, 1, Len(p)).val
             responseSize == ReadU32(p, 3, Len(p)).val
             responseCode == ReadU32(p, 7, Len(p)).val
             h == ReadBytes(p, HeaderSize + 1, Len(p), numHandles * HandleSize)
         IN  IF responseSize # Len(p) THEN ResponseError(0, "invalid responseSize value")
             ELSE IF responseCode # Success
             THEN IF Len(p) > HeaderSize
                  THEN ResponseError(responseCode, "trailing byte(s)")
                  ELSE ResponseError(responseCode, "")
             ELSE IF ~h.ok THEN ResponseError(0, "cannot read handles")
             ELSE IF tag = TagSessions
             THEN LET parameterSize == ReadU32(p, h.pos, Len(p))
                      params == ReadBytes(p, parameterSize.pos, Len(p), parameterSize.val)
                      as == UnmarshalResponseAuths(p, params.pos, << >>)
                  IN  IF ~parameterSize.ok
                      THEN ResponseError(0, "cannot unmarshal parameterSize")
                      ELSE IF ~params.ok THEN ResponseError(0, "cannot read parameters")
                      ELSE IF as.err # "" THEN ResponseError(0, as.err)
                      ELSE [rc |-> Success, handles |-> h.val, parameters |-> params.val,
                            authArea |-> as.val, err |-> ""]
             ELSE IF tag = TagNoSessions
             THEN [rc |-> Success, handles |-> h.val,
                   parameters |-> SubSeq(p, h.pos, Len(p)), authArea |-> << >>, err |-> ""]
             ELSE ResponseError(0, "invalid tag")

\* ------------------------------------------------------------------------
\* Codec specification: the codec's pure functions applied to inputs drawn
\* from bounded sets.
\* ------------------------------------------------------------------------

MaxGenAuths == 4

MaxParamLen == 1

MaxSlack == 1

CommandUnseal == 350

ResponseAuthFail == 2190

WarningRetryCode == 2338

\* Byte strings of length n (all bytes 165, as in the repository's tests).
RECURSIVE Fill(_)
Fill(n) == IF n = 0 THEN << >> ELSE << 165 >> \o Fill(n - 1)

GenHandleBytes == { << >>, << 64, 0, 0, 7 >> }

GenAuthResponse(nonceLen) ==
    [Nonce |-> Fill(nonceLen), SessionAttributes |-> 1, HMAC |-> << >>]

GenAuthCommand(nonceLen) ==
    [SessionHandle |-> 33554433, Nonce |-> Fill(nonceLen),
     SessionAttributes |-> 1, HMAC |-> << >>]

GenAuthResponses(n, nonceLen) == [i \in 1..n |-> GenAuthResponse(nonceLen)]

GenAuthCommands(n, nonceLen) == [i \in 1..n |-> GenAuthCommand(nonceLen)]

RECURSIVE MarshalAuthResponses(_)
MarshalAuthResponses(authArea) ==
    IF authArea = << >> THEN << >>
    ELSE MarshalAuthResponse(Head(authArea)) \o MarshalAuthResponses(Tail(authArea))

\* A response packet as a TPM (or a faulty transport) may send it: header,
\* then, when withBody, the handle bytes, the parameter area (with its size
\* field under TPM_ST_SESSIONS) and n auth entries, then extra bytes; the
\* size fields may be off by a slack.
EncodeResponse(tag, rc, withBody, handles, params, psizeSlack, auths, extra, sizeSlack) ==
    LET body ==
            IF ~withBody THEN extra
            ELSE handles
                 \o (IF tag = TagSessions THEN U32(Len(params) + psizeSlack) ELSE << >>)
                 \o params \o MarshalAuthResponses(auths) \o extra
    IN  U16(tag) \o U32(HeaderSize + Len(body) + sizeSlack) \o U32(rc) \o body

\* A command packet as a caller of UnmarshalPayload may hold it.
EncodeCommand(tag, cc, handles, auths, asizeSlack, params, sizeSlack) ==
    LET aBytes == MarshalAuthArea(auths)
        body ==
            handles
            \o (IF tag = TagSessions THEN U32(Len(aBytes) + asizeSlack) \o aBytes ELSE << >>)
            \o params
    IN  U16(tag) \o U32(HeaderSize + Len(body) + sizeSlack) \o U32(cc) \o body

NoCodec == [op |-> "none"]

NoRun == [pc |-> "idle"]

NoCall == [op |-> "none"]

NoMulti == [pc |-> "idle"]

NoPolicy == [pc |-> "idle"]

NoTickets == [pc |-> "idle"]

NoResources == [pc |-> "idle"]

NoSessionStart == [pc |-> "idle"]

NoContext == [pc |-> "idle"]

NoDuplicate == [pc |-> "idle"]

NoQualifiedName == [pc |-> "idle"]

NoAttrs == [pc |-> "idle"]

NoHandles == [pc |-> "idle"]

NoWire == [pc |-> "idle"]

NoSerialized == [pc |-> "idle"]

NoComputed == [pc |-> "idle"]

NoPath == [pc |-> "idle"]

NoProperties == [pc |-> "idle"]

NoLoadName == [pc |-> "idle"]

NoExecuteResources == [pc |-> "idle"]

DefaultMaxSubmissions == 5

\* Everything outside the codec, as newTpmContext leaves it.
RestInit ==
    /\ maxSubmissions = DefaultMaxSubmissions
    /\ run = NoRun
    /\ pendingResponse = 0
    /\ lastExclusiveSession = 0
    /\ sessionData = << >>
    /\ rsps = << >>
    /\ call = NoCall
    /\ multi = NoMulti
    /\ epr = NoExecuteResources
    /\ ln = NoLoadName
    /\ props = NoProperties
    /\ bpath = NoPath
    /\ cmp = NoComputed
    /\ ser = NoSerialized
    /\ wire = NoWire
    /\ hc = NoHandles
    /\ att = NoAttrs
    /\ qn = NoQualifiedName
    /\ dup = NoDuplicate
    /\ ctx = NoContext
    /\ sas = NoSessionStart
    /\ res = NoResources
    /\ tkt = NoTickets
    /\ pol = NoPolicy

CodecInit == codec = NoCodec /\ RestInit

CodecMarshalCommand ==
    /\ codec.op = "none"
    /\ \E handles \in GenHandleBytes, n \in 0..MaxGenAuths, nonceLen \in 0..MaxParamLen,
       plen \in 0..MaxParamLen :
        /\ codec' = [op |-> "MarshalCommandPacket",
                     numHandles |-> Len(handles) \div HandleSize,
                     authArea |-> GenAuthCommands(n, nonceLen),
                     parameters |-> Fill(plen),
                     p |-> MarshalCommandPacket(CommandUnseal, handles,
                                                GenAuthCommands(n, nonceLen), Fill(plen))]
        /\ UNCHANGED << maxSubmissions, run, pendingResponse, lastExclusiveSession,
                        sessionData, rsps, call, multi, pol, tkt, res, sas, ctx, dup, qn, att, hc, wire, ser, cmp, bpath, props, ln, epr >>

CodecUnmarshalPayload ==
    /\ codec.op = "none"
    /\ \E tag \in {TagSessions, TagNoSessions, TagRspCommand},
       handles \in GenHandleBytes, numHandles \in 0..1,
       n \in 0..MaxGenAuths, nonceLen \in 0..MaxParamLen, plen \in 0..MaxParamLen,
       asizeSlack \in 0..MaxSlack, sizeSlack \in 0..MaxSlack :
        LET p == EncodeCommand(tag, CommandUnseal, handles, GenAuthCommands(n, nonceLen),
                               asizeSlack, Fill(plen), sizeSlack)
        IN  /\ codec' = [op |-> "UnmarshalPayload", p |-> p, numHandles |-> numHandles,
                         sent |-> IF tag = TagSessions THEN n ELSE 0,
                         out |-> UnmarshalPayload(p, numHandles)]
            /\ UNCHANGED << maxSubmissions, run, pendingResponse, lastExclusiveSession,
                            sessionData, rsps, call, multi, pol, tkt, res, sas, ctx, dup, qn, att, hc, wire, ser, cmp, bpath, props, ln, epr >>

CodecUnmarshal ==
    /\ codec.op = "none"
    /\ \E tag \in {TagSessions, TagNoSessions, TagRspCommand},
       rc \in {Success, ResponseAuthFail, WarningRetryCode}, withBody \in BOOLEAN,
       handles \in GenHandleBytes, numHandles \in 0..1,
       n \in 0..MaxGenAuths, nonceLen \in 0..MaxParamLen, plen \in 0..MaxParamLen,
       psizeSlack \in 0..MaxSlack, elen \in 0..MaxSlack, sizeSlack \in 0..MaxSlack :
        LET p == EncodeResponse(tag, rc, withBody, handles, Fill(plen), psizeSlack,
                                GenAuthResponses(n, nonceLen), Fill(elen), sizeSlack)
        IN  /\ codec' = [op |-> "Unmarshal", p |-> p, numHandles |-> numHandles,
                         sent |-> IF withBody /\ tag = TagSessions THEN n ELSE 0,
                         out |-> Unmarshal(p, numHandles)]
            /\ UNCHANGED << maxSubmissions, run, pendingResponse, lastExclusiveSession,
                            sessionData, rsps, call, multi, pol, tkt, res, sas, ctx, dup, qn, att, hc, wire, ser, cmp, bpath, props, ln, epr >>

\* ResponsePacket.Unmarshal on a well-formed packet at and just above the
\* size limit: header and maxResponseSize - HeaderSize + over parameter bytes.
CodecUnmarshalLarge ==
    /\ codec.op = "none"
    /\ \E numHandles \in 0..1, over \in 0..MaxSlack :
        LET params == [i \in 1..(maxResponseSize - HeaderSize + over) |-> 165]
            p == EncodeResponse(TagNoSessions, Success, TRUE, << >>, params, 0,
                                << >>, << >>, 0)
        IN  /\ codec' = [op |-> "Unmarshal", p |-> p, numHandles |-> numHandles,
                         sent |-> 0, out |-> Unmarshal(p, numHandles)]
            /\ UNCHANGED << maxSubmissions, run, pendingResponse, lastExclusiveSession,
                            sessionData, rsps, call, multi, pol, tkt, res, sas, ctx, dup, qn, att, hc, wire, ser, cmp, bpath, props, ln, epr >>

CodecNext ==
    CodecMarshalCommand \/ CodecUnmarshalPayload \/ CodecUnmarshal \/ CodecUnmarshalLarge

SpecCodec == CodecInit /\ [][CodecNext]_vars

\* ------------------------------------------------------------------------
\* TPMContext.RunCommand: the submission loop (tpm.go:379-417)
\* ------------------------------------------------------------------------

MaxSetSubmissions == 6

MaxRunAuths == 2

ResponseYielded == 2312

ResponseTesting == 2314

ResponseContextGap == 2305

RCWarn == 2304

RCWarnEnd == 2432

WarningYielded == 8

WarningTesting == 10

WarningRetry == 34

NoError == [kind |-> "nil", code |-> 0]

\* DecodeResponseCode: nil for success, a *TPMWarning for the format-zero
\* codes of the warning range, a TPM error otherwise.
DecodeResponseCode(rc) ==
    IF rc = Success THEN NoError
    ELSE IF rc >= RCWarn /\ rc < RCWarnEnd
    THEN [kind |-> "TPMWarning", code |-> rc - RCWarn]
    ELSE [kind |-> "TPMError", code |-> rc]

IsTPMWarning(err, code) == err.kind = "TPMWarning" /\ err.code = code

\* tpm.go:411 with every warning treated as a reason to resubmit.
IsRetryWarningAnyWarning(err) == err.kind = "TPMWarning"

\* tpm.go:411: the three warnings after which the command is resubmitted.
IsRetryWarning(err) ==
    \/ IsTPMWarning(err, WarningYielded)
    \/ IsTPMWarning(err, WarningTesting)
    \/ IsTPMWarning(err, WarningRetry)

\* tpm.go:408 off by one.
BudgetSpentOffByOne(tries, max) == tries > max

\* tpm.go:408
BudgetSpent(tries, max) == tries >= max

\* tpm.go:400 accepting any response that has at least the command's auths.
AuthCountMismatchLax(rAuthArea, nCAuth) == Len(rAuthArea) < nCAuth

\* tpm.go:400
AuthCountMismatch(rAuthArea, nCAuth) == Len(rAuthArea) # nCAuth

\* What the transport may answer to one submission: a failed write, a failed
\* read, or a response packet.
RunResponses(numHandles) ==
    LET handles == IF numHandles = 1 THEN << 64, 0, 0, 7 >> ELSE << >>
    IN  { EncodeResponse(IF n > 0 THEN TagSessions ELSE TagNoSessions, Success, TRUE,
                         handles, << >>, 0, GenAuthResponses(n, 0), << >>, slack) :
              n \in 0..MaxRunAuths, slack \in 0..MaxSlack }
        \cup
        { EncodeResponse(tag, rc, FALSE, << >>, << >>, 0, << >>, << >>, slack) :
              tag \in {TagSessions, TagNoSessions},
              rc \in {ResponseYielded, ResponseTesting, WarningRetryCode,
                      ResponseContextGap, ResponseAuthFail},
              slack \in 0..MaxSlack }

TransportAnswers(numHandles) ==
    { [io |-> "write error", p |-> << >>], [io |-> "read error", p |-> << >>] }
    \cup { [io |-> "ok", p |-> p] : p \in RunResponses(numHandles) }

\* The transport answered with a well-formed response carrying one of the
\* codes TPM_RC_YIELDED, TPM_RC_TESTING, TPM_RC_RETRY.
AnsweredRetry(answer, numHandles) ==
    /\ answer.io = "ok"
    /\ Unmarshal(answer.p, numHandles).err = ""
    /\ Unmarshal(answer.p, numHandles).rc \in
           {ResponseYielded, ResponseTesting, WarningRetryCode}

\* One iteration of the loop (tpm.go:385-414) on the transport's answer:
\* the next run record.
RunIteration(r, answer, max) ==
    LET resp == Unmarshal(answer.p, r.numHandles)
        err == DecodeResponseCode(resp.rc)
        done(ret) == [r EXCEPT !.pc = "done", !.writes = @ + 1, !.last = answer, !.ret = ret]
        fail(e) == done([err |-> e, rAuthArea |-> << >>])
    IN  IF answer.io = "write error" THEN fail([kind |-> "TctiError", code |-> 0])
        ELSE IF answer.io = "read error" THEN fail([kind |-> "TctiError", code |-> 1])
        ELSE IF resp.err # "" THEN fail([kind |-> "InvalidResponseError", code |-> 0])
        ELSE IF err = NoError
        THEN IF AuthCountMismatch(resp.authArea, r.nCAuth)
             THEN fail([kind |-> "InvalidResponseError", code |-> 1])
             ELSE done([err |-> NoError, rAuthArea |-> resp.authArea])
        ELSE IF BudgetSpent(r.tries, max) THEN fail(err)
        ELSE IF ~IsRetryWarning(err) THEN fail(err)
        ELSE [r EXCEPT !.tries = @ + 1, !.writes = @ + 1, !.last = answer]

\* TPMContext.SetMaxSubmissions (tpm.go:433-435); not during a call: a
\* TPMContext is used by one caller at a time.
SetMaxSubmissions ==
    /\ run.pc # "loop"
    /\ \E max \in 0..MaxSetSubmissions : maxSubmissions' = max
    /\ UNCHANGED << codec, run, pendingResponse, lastExclusiveSession,
                    sessionData, rsps, call, multi, pol, tkt, res, sas, ctx, dup, qn, att, hc, wire, ser, cmp, bpath, props, ln, epr >>

\* TPMContext.RunCommand up to the loop (tpm.go:379-385): the packet is
\* marshalled and tries starts at 1.  budget remembers maxSubmissions as
\* it is during the call; writes counts the call's transport writes and
\* retries the answers among them that were one of the three retry warnings.
RunCommandBegin ==
    /\ run.pc # "loop"
    /\ \E nCAuth \in 0..MaxRunAuths, numHandles \in 0..1 :
        run' = [pc |-> "loop", nCAuth |-> nCAuth, numHandles |-> numHandles,
                tries |-> 1, writes |-> 0, retries |-> 0, budget |-> maxSubmissions,
                last |-> [io |-> "none", p |-> << >>],
                ret |-> [err |-> NoError, rAuthArea |-> << >>]]
    /\ UNCHANGED << codec, maxSubmissions, pendingResponse, lastExclusiveSession,
                    sessionData, rsps, call, multi, pol, tkt, res, sas, ctx, dup, qn, att, hc, wire, ser, cmp, bpath, props, ln, epr >>

\* One submission: RunCommandBytes, Unmarshal, DecodeResponseCode and the
\* decision to return or to go round again (tpm.go:385-414).
RunCommandSubmit ==
    /\ run.pc = "loop"
    /\ \E answer \in TransportAnswers(run.numHandles) :
        run' = [RunIteration(run, answer, maxSubmissions) EXCEPT
                    !.retries = IF AnsweredRetry(answer, run.numHandles) THEN @ + 1 ELSE @]
    /\ UNCHANGED << codec, maxSubmissions, pendingResponse, lastExclusiveSession,
                    sessionData, rsps, call, multi, pol, tkt, res, sas, ctx, dup, qn, att, hc, wire, ser, cmp, bpath, props, ln, epr >>

RunInit ==
    /\ codec = NoCodec
    /\ RestInit

RunNext == SetMaxSubmissions \/ RunCommandBegin \/ RunCommandSubmit

Spec == RunInit /\ [][RunNext]_vars

\* ------------------------------------------------------------------------
\* execContext: the pending-response latch and exclusive-audit tracking
\* (tpm.go:113-254)
\* ------------------------------------------------------------------------

MaxSessions == 1

MaxRsp == 2

CommandStartup == 324

CommandContextLoad == 353

CommandContextSave == 354

CommandFlushContext == 357

Sessions == 1..MaxSessions

ExecCommands ==
    {CommandStartup, CommandContextLoad, CommandContextSave, CommandFlushContext,
     CommandUnseal}

\* isSessionAllowed with the sense of the switch inverted.
isSessionAllowedInverted(commandCode) ==
    commandCode \in {CommandStartup, CommandContextLoad, CommandContextSave,
                     CommandFlushContext}

\* isSessionAllowed (tpm.go:113-126)
isSessionAllowed(commandCode) ==
    CASE commandCode = CommandStartup -> FALSE
      [] commandCode = CommandContextLoad -> FALSE
      [] commandCode = CommandContextSave -> FALSE
      [] commandCode = CommandFlushContext -> FALSE
      [] OTHER -> TRUE

\* The session lists of a command: sessions in increasing order, none twice.
SessionLists ==
    { l \in UNION { [1..n -> Sessions] : n \in 0..MaxSessions } :
          \A i \in 1..Len(l) : \A j \in 1..Len(l) : i < j => l[i] < l[j] }

\* The response auth areas a TPM may return for n sessions: at most one
\* session is reported exclusive (attribute audit-exclusive set).
ResponseAuthAreas(n) ==
    { [i \in 1..n |-> [exclusive |-> (i = e)]] : e \in 0..n }

\* sessionParams.ProcessResponseAuthArea: each entry in turn updates its
\* session's IsExclusive from the returned attribute and has its HMAC
\* compared; the entry at failAt (0: none) does not verify and ends the
\* processing with an error.
RECURSIVE ProcessResponseAuthArea(_, _, _, _, _)
ProcessResponseAuthArea(sessions, rAuthArea, sd, failAt, i) ==
    IF i > Len(sessions) THEN [sd |-> sd, err |-> FALSE]
    ELSE LET sd1 == [sd EXCEPT ![sessions[i]].IsExclusive = rAuthArea[i].exclusive]
         IN  IF i = failAt THEN [sd |-> sd1, err |-> TRUE]
             ELSE ProcessResponseAuthArea(sessions, rAuthArea, sd1, failAt, i + 1)

\* tpm.go:177-182: the first session of the response that is exclusive, or
\* the cached one when there is none.
RECURSIVE FirstExclusive(_, _, _, _)
FirstExclusive(sessions, sd, i, cached) ==
    IF i > Len(sessions) THEN cached
    ELSE IF sd[sessions[i]].IsExclusive THEN sessions[i]
    ELSE FirstExclusive(sessions, sd, i + 1, cached)

\* The dispatcher's state as one record, for the operators below.
ExecState ==
    [pendingResponse |-> pendingResponse, lastExclusiveSession |-> lastExclusiveSession,
     sessionData |-> sessionData, rsps |-> rsps]

\* processResponseAuth without the deferred r.Err = err (tpm.go:159-161).
processResponseAuthErrNotRecorded(st, r, failAt) ==
    IF r # st.pendingResponse THEN [st |-> st, err |-> st.rsps[r].Err, processed |-> FALSE]
    ELSE LET rc == st.rsps[r]
             clear == isSessionAllowed(rc.CommandCode) /\ st.lastExclusiveSession # 0
             sd1 == IF clear
                    THEN [st.sessionData EXCEPT ![st.lastExclusiveSession].IsExclusive = FALSE]
                    ELSE st.sessionData
             le1 == IF clear THEN 0 ELSE st.lastExclusiveSession
             pr == ProcessResponseAuthArea(rc.Sessions, rc.ResponseAuthArea, sd1, failAt, 1)
             le2 == IF pr.err THEN le1 ELSE FirstExclusive(rc.Sessions, pr.sd, 1, le1)
             err == IF pr.err THEN "InvalidResponseError" ELSE ""
         IN  [st |-> [pendingResponse |-> 0,
                      lastExclusiveSession |-> le2,
                      sessionData |-> pr.sd,
                      rsps |-> [st.rsps EXCEPT ![r].processed = @ + 1]],
              err |-> err, processed |-> TRUE]

\* execContext.processResponseAuth (tpm.go:154-185) applied to response r in
\* state st: the new state and the error returned.
processResponseAuth(st, r, failAt) ==
    IF r # st.pendingResponse THEN [st |-> st, err |-> st.rsps[r].Err, processed |-> FALSE]
    ELSE LET rc == st.rsps[r]
             clear == isSessionAllowed(rc.CommandCode) /\ st.lastExclusiveSession # 0
             sd1 == IF clear
                    THEN [st.sessionData EXCEPT ![st.lastExclusiveSession].IsExclusive = FALSE]
                    ELSE st.sessionData
             le1 == IF clear THEN 0 ELSE st.lastExclusiveSession
             pr == ProcessResponseAuthArea(rc.Sessions, rc.ResponseAuthArea, sd1, failAt, 1)
             le2 == IF pr.err THEN le1 ELSE FirstExclusive(rc.Sessions, pr.sd, 1, le1)
             err == IF pr.err THEN "InvalidResponseError" ELSE ""
         IN  [st |-> [pendingResponse |-> 0,
                      lastExclusiveSession |-> le2,
                      sessionData |-> pr.sd,
                      rsps |-> [st.rsps EXCEPT ![r].Err = err, ![r].processed = @ + 1]],
              err |-> err, processed |-> TRUE]

\* tpm.go:238-240 left out: the pending response is not processed.
FlushPendingSkipped(st, failAt) == [st |-> st, err |-> "", processed |-> FALSE]

\* tpm.go:238-240 with the response left pending after it was processed.
FlushPendingStillPending(st, failAt) ==
    IF st.pendingResponse # 0
    THEN LET p == processResponseAuth(st, st.pendingResponse, failAt)
         IN  [p EXCEPT !.st.pendingResponse = st.pendingResponse]
    ELSE [st |-> st, err |-> "", processed |-> FALSE]

\* tpm.go:238-240: a pending response has its auth area processed.
FlushPending(st, failAt) ==
    IF st.pendingResponse # 0 THEN processResponseAuth(st, st.pendingResponse, failAt)
    ELSE [st |-> st, err |-> "", processed |-> FALSE]

\* The steps of execContext.RunCommand that come before the dispatch, in
\* the order of the code (tpm.go:210-240), with the error each can return.
PreDispatchSteps ==
    << [step |-> "AppendSessionForResource", err |-> "cannot process HandleContext"],
       [step |-> "AppendExtraSessions", err |-> "cannot process non-auth SessionContext"],
       [step |-> "hasDecryptSession", err |-> "no command parameter encryption"],
       [step |-> "MarshalToBytes", err |-> "cannot marshal parameters"],
       [step |-> "BuildCommandAuthArea", err |-> "cannot build auth area"] >>

StepNames(n) == [i \in 1..n |-> PreDispatchSteps[i].step]

\* The commands that take no sessions: a TPM answers them with success only
\* when none was sent.
SessionlessCommands ==
    {CommandStartup, CommandContextLoad, CommandContextSave, CommandFlushContext}

CommandSessionLists(cc) == IF cc \in SessionlessCommands THEN {<< >>} ELSE SessionLists

\* The entry of a response's auth area that fails to verify when it is
\* processed (0: none does).
FailPositions(r) == IF r = 0 THEN {0} ELSE 0..Len(rsps[r].Sessions)

ExecInit ==
    /\ codec = NoCodec
    /\ maxSubmissions = DefaultMaxSubmissions
    /\ run = NoRun
    /\ pendingResponse = 0
    /\ lastExclusiveSession = 0
    /\ sessionData = [s \in Sessions |-> [IsExclusive |-> FALSE]]
    /\ rsps = << >>
    /\ call = NoCall
    /\ multi = NoMulti
    /\ epr = NoExecuteResources
    /\ ln = NoLoadName
    /\ props = NoProperties
    /\ bpath = NoPath
    /\ cmp = NoComputed
    /\ ser = NoSerialized
    /\ wire = NoWire
    /\ hc = NoHandles
    /\ att = NoAttrs
    /\ qn = NoQualifiedName
    /\ dup = NoDuplicate
    /\ ctx = NoContext
    /\ sas = NoSessionStart
    /\ res = NoResources
    /\ tkt = NoTickets
    /\ pol = NoPolicy

\* execContext.RunCommand failing at pre-dispatch step k (tpm.go:210-236):
\* it returns before the pending response is looked at.
ExecRunCommandRejected ==
    \E k \in 1..Len(PreDispatchSteps) :
        /\ call' = [op |-> "RunCommand", steps |-> StepNames(k),
                    err |-> PreDispatchSteps[k].err, r |-> 0,
                    wasPending |-> pendingResponse, processedRsp |-> 0,
                    prevExclusive |-> lastExclusiveSession, flushErr |-> ""]
        /\ UNCHANGED << codec, maxSubmissions, run, pendingResponse, lastExclusiveSession,
                        sessionData, rsps, multi, pol, tkt, res, sas, ctx, dup, qn, att, hc, wire, ser, cmp, bpath, props, ln, epr >>

\* execContext.RunCommand past the pre-dispatch steps (tpm.go:205-254): the
\* pending response is flushed, the command is handed to the dispatcher,
\* which fails or returns a response auth area, and on success the new
\* rspContext becomes the pending one.
ExecRunCommand ==
    \E dispatchOk \in BOOLEAN, failAt \in FailPositions(pendingResponse) :
        /\ dispatchOk => Len(rsps) < MaxRsp
        /\ \E cc \in ExecCommands :
           \E sessions \in CommandSessionLists(cc) :
           \E rAuthArea \in (IF dispatchOk THEN ResponseAuthAreas(Len(sessions))
                             ELSE {<< >>}) :
            LET fl == FlushPending(ExecState, failAt)
                steps == StepNames(Len(PreDispatchSteps))
                         \o (IF fl.processed THEN << "processResponseAuth" >> ELSE << >>)
                         \o << "dispatcher.RunCommand" >>
                r == [CommandCode |-> cc, Sessions |-> sessions,
                      ResponseAuthArea |-> rAuthArea, Err |-> "", processed |-> 0]
            IN  /\ lastExclusiveSession' = fl.st.lastExclusiveSession
                /\ sessionData' = fl.st.sessionData
                /\ rsps' = IF dispatchOk THEN Append(fl.st.rsps, r) ELSE fl.st.rsps
                /\ pendingResponse' = IF dispatchOk THEN Len(fl.st.rsps) + 1
                                      ELSE fl.st.pendingResponse
                /\ call' = [op |-> "RunCommand", steps |-> steps,
                            err |-> IF dispatchOk THEN "" ELSE "dispatcher error",
                            r |-> IF dispatchOk THEN Len(fl.st.rsps) + 1 ELSE 0,
                            wasPending |-> pendingResponse,
                            processedRsp |-> IF fl.processed THEN pendingResponse ELSE 0,
                            prevExclusive |-> lastExclusiveSession, flushErr |-> fl.err]
                /\ UNCHANGED << codec, maxSubmissions, run, multi, pol, tkt, res, sas, ctx, dup, qn, att, hc, wire, ser, cmp, bpath, props, ln, epr >>

\* execContext.CompleteResponse (tpm.go:187-203) on a response context the
\* caller holds: its auth area is processed (if it is still pending), then
\* the response parameters are unmarshalled.
ExecCompleteResponse ==
    \E r \in 1..Len(rsps) :
    \E failAt \in (IF r = pendingResponse THEN FailPositions(r) ELSE {0}),
       params \in {"", "cannot unmarshal response parameters", "trailing bytes"} :
        LET pr == processResponseAuth(ExecState, r, failAt)
        IN  /\ pr.err # "" => params = ""
            /\ pendingResponse' = pr.st.pendingResponse
            /\ lastExclusiveSession' = pr.st.lastExclusiveSession
            /\ sessionData' = pr.st.sessionData
            /\ rsps' = pr.st.rsps
            /\ call' = [op |-> "CompleteResponse",
                        steps |-> << "processResponseAuth" >>
                                  \o (IF pr.err = "" THEN << "UnmarshalFromReader" >>
                                      ELSE << >>),
                        err |-> IF pr.err # "" THEN pr.err
                                ELSE IF params # "" THEN "InvalidResponseError" ELSE "",
                        r |-> r, wasPending |-> pendingResponse,
                        processedRsp |-> IF pr.processed THEN r ELSE 0,
                        prevExclusive |-> lastExclusiveSession, flushErr |-> ""]
            /\ UNCHANGED << codec, maxSubmissions, run, multi, pol, tkt, res, sas, ctx, dup, qn, att, hc, wire, ser, cmp, bpath, props, ln, epr >>

ExecNext == ExecRunCommandRejected \/ ExecRunCommand \/ ExecCompleteResponse

SpecExec == ExecInit /\ [][ExecNext]_vars

\* ------------------------------------------------------------------------
\* execMultipleHelper and readMultipleHelper (tpm.go:27-111): a read split
\* into commands of at most maxSize bytes
\* ------------------------------------------------------------------------

MaxMultiSessions == 2
MaxSize == 4
MaxChunk == 2
MaxCalls == 5

\* A session argument: nil, a context without session data, or a context
\* with its session type and attributes.
NilSession == [kind |-> "nil", type |-> "", attrs |-> {}]

SessionTypes == {"SessionTypeHMAC", "SessionTypePolicy"}

AttrSets == {{}, {"AttrContinueSession"}, {"AttrAudit"}}

SessionArgs ==
    {NilSession, [kind |-> "nodata", type |-> "", attrs |-> {}]}
    \cup { [kind |-> "session", type |-> t, attrs |-> a] : t \in SessionTypes, a \in AttrSets }

SessionArgLists ==
    UNION { [1..n -> SessionArgs] : n \in 0..MaxMultiSessions }

\* IncludeAttrs with the attributes replaced instead of added.
IncludeAttrsReplacing(s, attrs) == [s EXCEPT !.attrs = attrs]

\* SessionContext.IncludeAttrs: a copy of the context with the attributes
\* added; the receiver is not changed.
IncludeAttrs(s, attrs) == [s EXCEPT !.attrs = @ \cup attrs]

\* tpm.go:34-50: the first non-nil session without session data, 0 if none.
FirstUnusable(sessions) ==
    IF \E i \in 1..Len(sessions) : sessions[i].kind = "nodata"
    THEN CHOOSE i \in 1..Len(sessions) :
             /\ sessions[i].kind = "nodata"
             /\ \A j \in 1..(i - 1) : sessions[j].kind # "nodata"
    ELSE 0

\* tpm.go:45-47: some session is a policy session.
HasPolicySession(sessions) ==
    \E i \in 1..Len(sessions) :
        sessions[i].kind = "session" /\ sessions[i].type = "SessionTypePolicy"

\* tpm.go:34-50: the first n sessions, when not nil, replaced by a copy that
\* has AttrContinueSession.
WithContinueSession(sessions, n) ==
    [i \in 1..Len(sessions) |->
        IF i > n \/ sessions[i].kind = "nil" THEN sessions[i]
        ELSE IncludeAttrs(sessions[i], {"AttrContinueSession"})]

\* readMultipleHelperContext.last (tpm.go:77-79)
last(c) == c.remaining <= c.maxSize

\* readMultipleHelperContext.run without the clipping of tpm.go:82-85: every
\* command asks for maxSize bytes.
runChunkUnclipped(c, sessions, ok) ==
    LET sz == c.maxSize
        entry == [sessions |-> sessions, size |-> sz, offset |-> c.total,
                  last |-> last(c), ok |-> ok]
    IN  IF ok
        THEN [c EXCEPT !.log = Append(@, entry),
                       !.total = (@ + sz) % 65536,
                       !.remaining = (@ + 65536 - sz) % 65536]
        ELSE [c EXCEPT !.log = Append(@, entry)]

\* readMultipleHelperContext.run (tpm.go:81-97) with the sessions given; ok
\* is whether the command it issues succeeds.
runChunk(c, sessions, ok) ==
    LET sz == IF c.remaining > c.maxSize THEN c.maxSize ELSE c.remaining
        entry == [sessions |-> sessions, size |-> sz, offset |-> c.total,
                  last |-> last(c), ok |-> ok]
    IN  IF ok
        THEN [c EXCEPT !.log = Append(@, entry),
                       !.total = (@ + sz) % 65536,
                       !.remaining = (@ + 65536 - sz) % 65536]
        ELSE [c EXCEPT !.log = Append(@, entry)]

\* tpm.go:65 with the sessions of the loop instead of the original ones.
FinalSessionsContinued(c) == c.sessions

\* tpm.go:65: the last iteration runs with the original session contexts.
FinalSessions(c) == c.sessionsOrig

\* tpm.go:53-55 left out: a policy session is never rejected.
PolicyRejectedNever(c) == FALSE

\* tpm.go:53-55: a further iteration is refused when a policy session is used.
PolicyRejected(c) == c.hasPolicySession

MultiInit ==
    /\ RestInit
    /\ codec = NoCodec

\* readMultipleHelper called (tpm.go:99-111), up to the loop of
\* execMultipleHelper (tpm.go:27-50).
MultiBegin ==
    /\ multi.pc = "idle"
    /\ \E size \in 0..MaxSize, maxSize \in 0..MaxChunk, sessions \in SessionArgLists :
        LET u == FirstUnusable(sessions)
            n == IF u = 0 THEN Len(sessions) ELSE u - 1
            c == [pc |-> "loop", size |-> size, maxSize |-> maxSize,
                  args |-> sessions, sessionsOrig |-> sessions,
                  sessions |-> WithContinueSession(sessions, n),
                  hasPolicySession |-> HasPolicySession(SubSeq(sessions, 1, n)),
                  remaining |-> size, total |-> 0, log |-> << >>, err |-> ""]
        IN  multi' = IF u # 0
                     THEN [c EXCEPT !.pc = "done", !.err = "unusable session context"]
                     ELSE c
    /\ UNCHANGED << codec, maxSubmissions, run, pendingResponse, lastExclusiveSession,
                    sessionData, rsps, call, pol, tkt, res, sas, ctx, dup, qn, att, hc, wire, ser, cmp, bpath, props, ln, epr >>

\* One turn of the loop of execMultipleHelper (tpm.go:52-65): a further
\* command with the continued sessions, or the last one.
MultiRun ==
    /\ multi.pc = "loop"
    /\ Len(multi.log) < MaxCalls
    /\ \E ok \in BOOLEAN :
        multi' =
            IF ~last(multi)
            THEN IF PolicyRejected(multi)
                 THEN [multi EXCEPT !.pc = "done",
                                    !.err = "cannot use a policy session for authorization"]
                 ELSE LET c == runChunk(multi, multi.sessions, ok)
                      IN  IF ok THEN c
                          ELSE [c EXCEPT !.pc = "done", !.err = "exec error"]
            ELSE LET c == runChunk(multi, FinalSessions(multi), ok)
                 IN  [c EXCEPT !.pc = "done", !.err = IF ok THEN "" ELSE "exec error"]
    /\ UNCHANGED << codec, maxSubmissions, run, pendingResponse, lastExclusiveSession,
                    sessionData, rsps, call, pol, tkt, res, sas, ctx, dup, qn, att, hc, wire, ser, cmp, bpath, props, ln, epr >>

MultiNext == MultiBegin \/ MultiRun

SpecMulti == MultiInit /\ [][MultiNext]_vars

\* ------------------------------------------------------------------------
\* Claims about TPMContext.RunCommand (checked under Spec)
\* ------------------------------------------------------------------------

Max(a, b) == IF a > b THEN a ELSE b

LastResponse == Unmarshal(run.last.p, run.numHandles)

\* C1: RunCommand writes the command packet to the transport at most
\* max(1, maxSubmissions) times; when every submission is answered with a
\* retry-class warning it stops at the budget and returns the warning of the
\* last submission as the error.
C1_SubmissionBudget ==
    run.pc # "idle" =>
        /\ run.writes <= Max(1, run.budget)
        /\ (run.pc = "done" /\ run.retries = run.writes)
           => /\ run.writes = Max(1, run.budget)
              /\ run.ret.err = [kind |-> "TPMWarning", code |-> LastResponse.rc - RCWarn]

C1_Witness ==
    /\ run.pc = "done"
    /\ run.retries = run.writes
    /\ run.budget = DefaultMaxSubmissions
    /\ run.writes = DefaultMaxSubmissions
    /\ run.ret.err.kind = "TPMWarning"

\* C2: RunCommand resubmits only after a response that decodes to the warning
\* YIELDED, TESTING or RETRY: every answer but the last of a call is one of
\* them, and any other non-success code, a transport write or read error, or
\* a packet that cannot be unmarshalled ends the call with that error.
C2_ResubmitOnlyAfterRetryWarning ==
    (run.pc # "idle" /\ run.writes > 0) =>
        /\ run.retries >= run.writes - 1
        /\ run.last.io = "write error"
           => (run.pc = "done" /\ run.ret.err = [kind |-> "TctiError", code |-> 0])
        /\ run.last.io = "read error"
           => (run.pc = "done" /\ run.ret.err = [kind |-> "TctiError", code |-> 1])
        /\ (run.last.io = "ok" /\ LastResponse.err # "")
           => (run.pc = "done" /\ run.ret.err.kind = "InvalidResponseError")
        /\ (/\ run.last.io = "ok"
            /\ LastResponse.err = ""
            /\ LastResponse.rc # Success
            /\ ~AnsweredRetry(run.last, run.numHandles))
           => (run.pc = "done" /\ run.ret.err = DecodeResponseCode(LastResponse.rc))

C2_Witness ==
    /\ run.pc = "done"
    /\ run.writes = 3
    /\ run.retries = 2
    /\ run.last.io = "ok"
    /\ LastResponse.err = ""
    /\ LastResponse.rc = ResponseContextGap
    /\ run.ret.err.kind = "TPMWarning"

\* C6: when the TPM answers with response code success, RunCommand returns
\* the response only if the number of response auth entries equals the number
\* of command auth entries; otherwise it returns an InvalidResponseError and
\* does not resubmit.
C6_SuccessNeedsMatchingAuthCount ==
    (/\ run.pc # "idle"
     /\ run.last.io = "ok"
     /\ LastResponse.err = ""
     /\ LastResponse.rc = Success)
    => /\ run.pc = "done"
       /\ IF Len(LastResponse.authArea) = run.nCAuth
          THEN run.ret = [err |-> NoError, rAuthArea |-> LastResponse.authArea]
          ELSE run.ret.err.kind = "InvalidResponseError" /\ run.ret.rAuthArea = << >>

C6_Witness ==
    /\ run.pc = "done"
    /\ run.last.io = "ok"
    /\ LastResponse.err = ""
    /\ LastResponse.rc = Success
    /\ run.nCAuth = 1
    /\ Len(LastResponse.authArea) = 2
    /\ run.ret.err.kind = "InvalidResponseError"


\* ------------------------------------------------------------------------
\* Claims about the packet codec (checked under SpecCodec)
\* ------------------------------------------------------------------------

PacketTag(p) == ReadU16(p, 1, Len(p)).val

PacketCode(p) == ReadU32(p, 7, Len(p)).val

\* The number of auth entries in the auth area of a command packet.
CommandAuthCount(p, numHandles) ==
    LET authSize == ReadU32(p, HeaderSize + 1 + numHandles * HandleSize, Len(p))
    IN  IF PacketTag(p) # TagSessions \/ ~authSize.ok THEN 0
        ELSE Len(UnmarshalCommandAuthsUnlimited(p, authSize.pos, authSize.val, << >>).val)

\* C7: ResponsePacket.Unmarshal returns an error for every response packet
\* whose tag is TPM_ST_SESSIONS and whose response code is non-zero.
C7_SessionsTagNonZeroCodeRejected ==
    (/\ codec.op = "Unmarshal"
     /\ Len(codec.p) >= HeaderSize
     /\ PacketTag(codec.p) = TagSessions
     /\ PacketCode(codec.p) # Success)
    => codec.out.err # ""

\* C8: no packet with more than 3 auth entries is produced or accepted in
\* either direction: UnmarshalPayload and Unmarshal fail when more than three
\* auth entries were sent and accept at most three, and MarshalCommandPacket
\* never emits a command packet carrying more than three auth entries.
C8_AtMostThreeAuthEntries ==
    /\ (codec.op \in {"Unmarshal", "UnmarshalPayload"} /\ codec.out.err = "")
       => (Len(codec.out.authArea) <= MaxAuths /\ codec.sent <= MaxAuths)
    /\ codec.op = "MarshalCommandPacket"
       => CommandAuthCount(codec.p, codec.numHandles) <= MaxAuths

\* The unmarshalling half of C8 alone, which the code satisfies.
C8_UnmarshalAtMostThree ==
    (codec.op \in {"Unmarshal", "UnmarshalPayload"} /\ codec.out.err = "")
    => (Len(codec.out.authArea) <= MaxAuths /\ codec.sent <= MaxAuths)

\* ------------------------------------------------------------------------
\* Claims about execContext (SpecExec)
\* ------------------------------------------------------------------------

\* The position of a step in the trace of a call, 0 when it was not taken.
StepIndex(steps, name) ==
    IF \E i \in 1..Len(steps) : steps[i] = name
    THEN CHOOSE i \in 1..Len(steps) : steps[i] = name
    ELSE 0

\* The session at position i of response rc was reported exclusive by the TPM.
ReportedExclusive(rc, s) ==
    \E i \in 1..Len(rc.Sessions) : rc.Sessions[i] = s /\ rc.ResponseAuthArea[i].exclusive

\* C3: the dispatcher is a two-state machine: either no response is pending
\* or exactly one is, and every other response context has been processed;
\* a successful RunCommand leaves exactly the response it returned pending;
\* and a RunCommand that reaches the dispatcher while a response is pending
\* has processed that response's auth area before the dispatch.
C3_TwoStateLatch ==
    /\ pendingResponse \in 0..Len(rsps)
    /\ \A r \in 1..Len(rsps) :
           rsps[r].processed = (IF r = pendingResponse THEN 0 ELSE 1)
    /\ (call.op = "RunCommand" /\ call.err = "")
           => /\ call.r # 0
              /\ call.r # call.wasPending
              /\ pendingResponse = call.r
    /\ (/\ call.op = "RunCommand"
        /\ call.wasPending # 0
        /\ StepIndex(call.steps, "dispatcher.RunCommand") # 0)
           => /\ call.processedRsp = call.wasPending
              /\ StepIndex(call.steps, "processResponseAuth") # 0
              /\ StepIndex(call.steps, "processResponseAuth")
                     < StepIndex(call.steps, "dispatcher.RunCommand")

\* A command succeeded while another response was pending: the old one was
\* flushed and the new one is pending.
C3_Witness ==
    /\ call.op = "RunCommand"
    /\ call.err = ""
    /\ call.wasPending # 0
    /\ call.processedRsp = call.wasPending
    /\ rsps[call.wasPending].processed = 1
    /\ pendingResponse = call.r

\* C4: when RunCommand is called while a response is pending, the pending
\* response's auth area is processed before the auth area of the next
\* command is built.
C4_PendingProcessedBeforeAuthAreaBuilt ==
    (/\ call.op = "RunCommand"
     /\ call.wasPending # 0
     /\ StepIndex(call.steps, "BuildCommandAuthArea") # 0)
        => /\ StepIndex(call.steps, "processResponseAuth") # 0
           /\ StepIndex(call.steps, "processResponseAuth")
                  < StepIndex(call.steps, "BuildCommandAuthArea")

\* C5 as stated: once a session is cached as exclusive, processing the
\* response of Startup, ContextLoad, ContextSave or FlushContext clears the
\* session's IsExclusive flag and the cached exclusive session.
C5_NonAuditableClearsExclusive ==
    (/\ call.op # "none"
     /\ call.processedRsp # 0
     /\ call.prevExclusive # 0
     /\ rsps[call.processedRsp].CommandCode \in SessionlessCommands)
        => /\ lastExclusiveSession = 0
           /\ ~sessionData[call.prevExclusive].IsExclusive

\* C5 as the code has it: once a session is cached as exclusive, processing
\* the response of a command other than Startup, ContextLoad, ContextSave and
\* FlushContext clears the session's IsExclusive flag and the cached
\* exclusive session, which are set again only from what that response
\* reports; processing the response of one of those four commands leaves
\* both as they were.
C5_SessionsAllowedCommandClearsExclusive ==
    (/\ call.op # "none"
     /\ call.processedRsp # 0
     /\ call.prevExclusive # 0)
        => LET rc == rsps[call.processedRsp]
               s == call.prevExclusive
           IN  IF rc.CommandCode \in SessionlessCommands
               THEN lastExclusiveSession = s /\ sessionData[s].IsExclusive
               ELSE /\ sessionData[s].IsExclusive => ReportedExclusive(rc, s)
                    /\ lastExclusiveSession # 0
                           => /\ rc.Err = ""
                              /\ ReportedExclusive(rc, lastExclusiveSession)

\* A session was cached as exclusive and the response of a command that
\* allows sessions was processed: the flag and the cache are cleared.
C5_Witness ==
    /\ call.op # "none"
    /\ call.processedRsp # 0
    /\ call.prevExclusive # 0
    /\ rsps[call.processedRsp].CommandCode \notin SessionlessCommands
    /\ lastExclusiveSession = 0
    /\ ~sessionData[call.prevExclusive].IsExclusive

\* ------------------------------------------------------------------------
\* Claims about execMultipleHelper (SpecMulti)
\* ------------------------------------------------------------------------

\* The command of log entry e, had it succeeded, leaves session i evicted.
Evicts(e, i) ==
    e.ok /\ e.sessions[i].kind # "nil" /\ "AttrContinueSession" \notin e.sessions[i].attrs

\* C9: every iteration except the last runs with AttrContinueSession added
\* to every non-nil session (nil sessions stay nil, the other attributes
\* stay), the last or only iteration runs with the caller's original session
\* contexts, and only the final command of the sequence can evict a session.
C9_ContinueSessionOnAllButLast ==
    multi.pc # "idle" =>
        /\ \A k \in 1..Len(multi.log) :
            LET e == multi.log[k]
            IN  /\ Len(e.sessions) = Len(multi.args)
                /\ ~e.last =>
                       \A i \in 1..Len(multi.args) :
                           IF multi.args[i].kind = "nil"
                           THEN e.sessions[i] = multi.args[i]
                           ELSE e.sessions[i] =
                                    [multi.args[i] EXCEPT
                                         !.attrs = @ \cup {"AttrContinueSession"}]
                /\ e.last => (e.sessions = multi.args /\ k = Len(multi.log)
                              /\ multi.pc = "done")
                /\ (\E i \in 1..Len(e.sessions) : Evicts(e, i)) => e.last
        /\ (multi.pc = "done" /\ multi.err = "")
               => (multi.log # << >> /\ multi.log[Len(multi.log)].last)

\* A read of several commands with a session that has no AttrContinueSession:
\* the earlier commands carried the attribute, the last one evicted the session.
C9_Witness ==
    /\ multi.pc = "done"
    /\ multi.err = ""
    /\ Len(multi.log) >= 2
    /\ \E i \in 1..Len(multi.args) :
           /\ multi.args[i].kind = "session"
           /\ "AttrContinueSession" \notin multi.args[i].attrs
           /\ "AttrContinueSession" \in multi.log[1].sessions[i].attrs
           /\ Evicts(multi.log[Len(multi.log)], i)

\* C10: with a policy session among the sessions, an operation that needs
\* more than one iteration fails before any command is run, and an operation
\* of a single iteration runs its one command with the sessions as given.
C10_PolicySessionOnlyForSingleIteration ==
    (multi.pc # "idle" /\ HasPolicySession(multi.args)) =>
        IF multi.size > multi.maxSize
        THEN /\ multi.log = << >>
             /\ multi.pc = "done" => multi.err # ""
        ELSE multi.pc = "done" =>
                 IF FirstUnusable(multi.args) # 0
                 THEN multi.log = << >> /\ multi.err = "unusable session context"
                 ELSE /\ Len(multi.log) = 1
                      /\ multi.log[1].sessions = multi.args
                      /\ multi.log[1].last
                      /\ (multi.err = "") = multi.log[1].ok

\* A policy session was refused for a read that needs several commands.
C10_Witness ==
    /\ multi.pc = "done"
    /\ HasPolicySession(multi.args)
    /\ multi.size > multi.maxSize
    /\ multi.err = "cannot use a policy session for authorization"
    /\ multi.log = << >>

\* ------------------------------------------------------------------------
\* policyutil: Policy.ComputeFor and Policy.Execute.  A policy is a tree: a
\* branch is a named list of elements and a branch node ("OR") holds
\* branches.  Strings that the code parses (branch paths, branch names) are
\* sequences of one-character strings.
\* ------------------------------------------------------------------------

MaxBranches == 2

HashAlgorithms == { "SHA1", "SHA256" }

NVChangeAuth == "NVChangeAuth"
HierarchyChangeAuth == "HierarchyChangeAuth"

Digits == << "0", "1", "2", "3", "4", "5", "6", "7", "8", "9" >>

\* The decimal digit characters are Digits[v + 1] for the value v.
IsDigit(ch) == \E i \in DOMAIN Digits : Digits[i] = ch

DigitValue(ch) == (CHOOSE i \in DOMAIN Digits : Digits[i] = ch) - 1

Element(kind, arg, branches) == [kind |-> kind, arg |-> arg, branches |-> branches]

NvWritten == Element("NvWritten", "true", << >>)
AuthValue == Element("AuthValue", "", << >>)
Secret == Element("Secret", "owner", << >>)
Signed == Element("Signed", "authKey", << >>)
CommandCode(code) == Element("CommandCode", code, << >>)
CpHash == Element("CpHash", "cpHashA", << >>)
NameHash == Element("NameHash", "nameHash", << >>)
BranchNode(branches) == Element("OR", "", branches)

Branch(name, elements) == [name |-> name, elements |-> elements]

\* The name "b<i>" of a branch.
BranchName(i) == << "b", Digits[i + 1] >>

\* The positional selector "$[<i>]".
Selector(i) == << "$", "[", Digits[i + 1], "]" >>

\* PopNextComponent: skip every leading separator, the component runs to
\* the next separator, and that one separator is dropped from the rest.
RECURSIVE TrimLeadingSeparators(_)
TrimLeadingSeparators(path) ==
    IF path # << >> /\ Head(path) = "/"
    THEN TrimLeadingSeparators(Tail(path))
    ELSE path

RECURSIVE ComponentLen(_)
ComponentLen(path) ==
    IF path = << >> \/ Head(path) = "/"
    THEN 0
    ELSE 1 + ComponentLen(Tail(path))

PopNextComponentKeepingSeparator(path) ==
    LET trimmed == TrimLeadingSeparators(path)
        n == ComponentLen(trimmed)
    IN  [ next |-> SubSeq(trimmed, 1, n),
          remaining |-> SubSeq(trimmed, n + 1, Len(trimmed)) ]

PopNextComponent(path) ==
    LET trimmed == TrimLeadingSeparators(path)
        n == ComponentLen(trimmed)
    IN  [ next |-> SubSeq(trimmed, 1, n),
          remaining |-> SubSeq(trimmed, n + 2, Len(trimmed)) ]

\* The value of a run of decimal digits, -1 when it is not one.
RECURSIVE ParseUint(_, _)
ParseUint(chars, acc) ==
    IF chars = << >> THEN acc
    ELSE IF ~IsDigit(Head(chars)) THEN -1
    ELSE ParseUint(Tail(chars), acc * 10 + DigitValue(Head(chars)))

\* A component "$[n]" gives n; any other component starting with "$" is
\* badly formatted (-1).
ParseSelector(component) ==
    IF /\ Len(component) >= 4
       /\ component[1] = "$" /\ component[2] = "["
       /\ component[Len(component)] = "]"
    THEN ParseUint(SubSeq(component, 3, Len(component) - 1), 0)
    ELSE -1

\* A digest is the hash algorithm and the chain of values hashed into an
\* all-zero start: H is injective here, so two digests are equal exactly
\* when they were extended by the same values in the same order.
Zero(alg) == [alg |-> alg, chain |-> << >>]

Extend(d, cc, arg, digests) ==
    [alg |-> d.alg, chain |-> Append(d.chain, [cc |-> cc, arg |-> arg, digests |-> digests])]

policyRef == "foo"

\* Policy.ComputeFor: the update rule of every element kind; the digest of
\* each branch of a node starts from the digest on entry to the node.
RECURSIVE computeElements(_, _)
computeElements(elements, d) ==
    IF elements = << >> THEN d
    ELSE
        LET e == Head(elements)
            next ==
                CASE e.kind = "NvWritten" -> Extend(d, "PolicyNvWritten", e.arg, << >>)
                  [] e.kind = "AuthValue" -> Extend(d, "PolicyAuthValue", "", << >>)
                  [] e.kind = "CommandCode" -> Extend(d, "PolicyCommandCode", e.arg, << >>)
                  [] e.kind = "CpHash" -> Extend(d, "PolicyCpHash", e.arg, << >>)
                  [] e.kind = "NameHash" -> Extend(d, "PolicyNameHash", e.arg, << >>)
                  [] e.kind = "Secret" ->
                        Extend(Extend(d, "PolicySecret", e.arg, << >>), "", policyRef, << >>)
                  [] e.kind = "Signed" ->
                        Extend(Extend(d, "PolicySigned", e.arg, << >>), "", policyRef, << >>)
                  [] e.kind = "OR" ->
                        Extend(Zero(d.alg), "PolicyOR", "",
                               [i \in DOMAIN e.branches |->
                                    computeElements(e.branches[i].elements, d)])
        IN  computeElements(Tail(elements), next)

ComputeFor(policy, alg) == computeElements(policy, Zero(alg))

\* The policy session as the TPM keeps it: the commands it received and its
\* policy digest.  Every assertion extends the digest as ComputeFor's rule
\* for it does; TPM2_PolicyOR fails with TPM_RC_VALUE unless the current
\* digest is in the list, and then replaces the digest.
TPMPolicyCommand(session, cc, arg) ==
    [ session EXCEPT !.log = Append(@, cc),
                     !.digest = IF cc \in { "PolicySecret", "PolicySigned" }
                                THEN Extend(Extend(@, cc, arg, << >>), "", policyRef, << >>)
                                ELSE Extend(@, cc, arg, << >>) ]

TPMPolicyOR(session, pHashList) ==
    IF \E i \in DOMAIN pHashList : pHashList[i] = session.digest
    THEN [ session EXCEPT !.log = Append(@, "PolicyOR"),
                          !.digest = Extend(Zero(session.alg), "PolicyOR", "", pHashList) ]
    ELSE [ session EXCEPT !.log = Append(@, "PolicyOR"),
                          !.err = "TPM_RC_VALUE" ]

\* The TPM command that asserts an element.
ElementCommand(e) ==
    CASE e.kind = "NvWritten" -> "PolicyNvWritten"
      [] e.kind = "AuthValue" -> "PolicyAuthValue"
      [] e.kind = "CommandCode" -> "PolicyCommandCode"
      [] e.kind = "CpHash" -> "PolicyCpHash"
      [] e.kind = "NameHash" -> "PolicyNameHash"
      [] e.kind = "Secret" -> "PolicySecret"
      [] e.kind = "Signed" -> "PolicySigned"
      [] e.kind = "OR" -> "PolicyOR"

\* The usage the policy session is intended for.
NoUsage == [present |-> FALSE, commandCode |-> "", canUseAuthValue |-> FALSE]

NewPolicySessionUsage(commandCode, canUseAuthValue) ==
    [present |-> TRUE, commandCode |-> commandCode, canUseAuthValue |-> canUseAuthValue]

\* A branch can be used with the usage: its PolicyAuthValue needs the auth
\* value to be usable, its PolicyCommandCode needs the usage's command,
\* and every node nested in it needs a branch that can be used.
RECURSIVE Satisfiable(_, _)
Satisfiable(elements, usage) ==
    \A k \in DOMAIN elements :
        LET e == elements[k]
        IN  CASE e.kind = "AuthValue" -> usage.canUseAuthValue
              [] e.kind = "CommandCode" -> e.arg = usage.commandCode
              [] e.kind = "OR" ->
                    \E i \in DOMAIN e.branches : Satisfiable(e.branches[i].elements, usage)
              [] OTHER -> TRUE

\* Automatic selection that takes the first branch whatever the usage.
autoSelectBranchFirst(node, usage) == 1

\* Automatic selection: the first branch without a usage, else the earliest
\* branch that the usage satisfies; index 0 when there is none.
autoSelectBranch(node, usage) ==
    IF ~usage.present THEN 1
    ELSE IF \E i \in DOMAIN node.branches : Satisfiable(node.branches[i].elements, usage)
    THEN CHOOSE i \in DOMAIN node.branches :
            /\ Satisfiable(node.branches[i].elements, usage)
            /\ \A j \in 1..(i - 1) : ~Satisfiable(node.branches[j].elements, usage)
    ELSE 0

\* Branch selection for a node from the next component of the path: no
\* component selects automatically, "$[n]" selects by position and any
\* other component by name.
selectBranch(node, component, usage) ==
    IF component = << >>
    THEN LET i == autoSelectBranch(node, usage)
         IN  [ index |-> i,
               err |-> IF i = 0 THEN "no appropriate branches" ELSE "" ]
    ELSE IF Head(component) = "$"
    THEN LET n == ParseSelector(component)
         IN  IF n < 0
             THEN [index |-> 0, err |-> "badly formatted path component"]
             ELSE IF n >= Len(node.branches)
             THEN [index |-> 0, err |-> "selected path out of range"]
             ELSE [index |-> n + 1, err |-> ""]
    ELSE IF \E i \in DOMAIN node.branches : node.branches[i].name = component
    THEN [ index |-> CHOOSE i \in DOMAIN node.branches :
                        /\ node.branches[i].name = component
                        /\ \A j \in 1..(i - 1) : node.branches[j].name # component,
           err |-> "" ]
    ELSE [index |-> 0, err |-> "no branch with name"]

BranchSelectionErrors ==
    { "no appropriate branches", "badly formatted path component",
      "selected path out of range", "no branch with name" }

ErrMissingDigest == "missing digest for session algorithm"

\* No element is held back for a missing digest.
MissingDigestNever(e, alg, computed) == FALSE

\* An element that carries one digest per algorithm cannot be asserted when
\* the policy has none for the session's algorithm.
MissingDigest(e, alg, computed) ==
    /\ e.kind \in { "CpHash", "NameHash" }
    /\ alg \notin computed

\* The digests of the branches in reverse order.
BranchDigestsReversed(node, entry) ==
    [i \in DOMAIN node.branches |->
        computeElements(node.branches[Len(node.branches) + 1 - i].elements, entry)]

\* The digests of the branches of a node for TPM2_PolicyOR, in declaration
\* order.  Those the policy does not hold for the session's algorithm are
\* computed here, from the digest on entry to the node.
BranchDigests(node, entry) ==
    [i \in DOMAIN node.branches |-> computeElements(node.branches[i].elements, entry)]

\* A runner that also runs the first branch's elements for every node.
branchElementsWithFirst(node, index) ==
    IF index = 1 THEN node.branches[1].elements
    ELSE node.branches[1].elements \o node.branches[index].elements

\* The elements of the selected branch of a node.
branchElements(node, index) == node.branches[index].elements

\* The runner over a list of elements.  r is the session (alg, digest, log)
\* with the path that is left, the branches selected so far and the error.
\* With dry set no command is sent: only the branches are selected.
RECURSIVE runElements(_, _, _, _, _)
runElements(elements, r, usage, computed, dry) ==
    IF r.err # "" \/ elements = << >> THEN r
    ELSE
        LET e == Head(elements)
            pop == PopNextComponent(r.path)
            sel == selectBranch(e, pop.next, usage)
            inBranch ==
                runElements(branchElements(e, sel.index),
                            [r EXCEPT !.path = pop.remaining,
                                      !.selected = Append(@, sel.index)],
                            usage, computed, dry)
            next ==
                IF e.kind = "OR"
                THEN IF sel.err # "" THEN [r EXCEPT !.err = sel.err]
                     ELSE IF inBranch.err # "" \/ dry THEN inBranch
                     ELSE TPMPolicyOR(inBranch, BranchDigests(e, r.digest))
                ELSE IF dry THEN r
                ELSE IF MissingDigest(e, r.alg, computed)
                THEN [r EXCEPT !.err = ErrMissingDigest]
                ELSE TPMPolicyCommand(r, ElementCommand(e), e.arg)
        IN  runElements(Tail(elements), next, usage, computed, dry)

NewSession(alg, path) ==
    [ alg |-> alg, digest |-> Zero(alg), log |-> << >>, err |-> "",
      path |-> path, selected |-> << >> ]

\* Execute that selects the branch of a node when the runner reaches it.
ExecuteSelectingLate(policy, alg, computed, path, usage) ==
    runElements(policy, NewSession(alg, path), usage, computed, FALSE)

\* Policy.Execute: the branches the path and the usage select are resolved
\* over the whole tree before the first command; then the elements are
\* asserted in order.
Execute(policy, alg, computed, path, usage) ==
    LET resolved == runElements(policy, NewSession(alg, path), usage, computed, TRUE)
    IN  IF resolved.err # "" THEN resolved
        ELSE runElements(policy, NewSession(alg, path), usage, computed, FALSE)

\* The policies: one node, two nodes in sequence, and nodes embedded in the
\* branches of a node, over the leaves the usage can tell apart.
BranchLeaves ==
    { AuthValue, Secret, CommandCode(NVChangeAuth), CommandCode(HierarchyChangeAuth) }

NamedBranches(leaves) == [i \in DOMAIN leaves |-> Branch(BranchName(i), << leaves[i] >>)]

TailElements == { CommandCode(NVChangeAuth), CpHash, NameHash }

SingleNodePolicies ==
    { << NvWritten, BranchNode(NamedBranches(leaves)), t >> :
        leaves \in [1..MaxBranches -> BranchLeaves], t \in TailElements }

MultipleNodePolicies ==
    { << NvWritten,
         BranchNode(NamedBranches(<< AuthValue, Secret >>)),
         BranchNode(NamedBranches(<< CommandCode(c), CommandCode(d) >>)) >> :
        c, d \in { NVChangeAuth, HierarchyChangeAuth } }

EmbeddedNodePolicies ==
    { << NvWritten,
         BranchNode(<< Branch(BranchName(1),
                              << x, BranchNode(NamedBranches(
                                        << CommandCode(NVChangeAuth),
                                           CommandCode(HierarchyChangeAuth) >>)) >>),
                       Branch(BranchName(2),
                              << y, BranchNode(NamedBranches(
                                        << CommandCode(HierarchyChangeAuth),
                                           CommandCode(NVChangeAuth) >>)) >>) >>) >> :
        x, y \in { AuthValue, Secret } }

Policies == SingleNodePolicies \cup MultipleNodePolicies \cup EmbeddedNodePolicies

\* Path components: a name of a branch, the name of no branch, a selector
\* in and out of range, and a selector that is not one.
PathComponents ==
    { BranchName(i) : i \in 1..MaxBranches }
        \cup { << "z" >>, << "$", "f" >> }
        \cup { Selector(i) : i \in 0..MaxBranches }

BranchPaths ==
    { << >> } \cup PathComponents
        \cup { c \o << "/" >> \o d : c, d \in PathComponents }
        \cup { << "/" >> \o c \o << "/", "/" >> \o d : c, d \in { BranchName(1), Selector(1) } }

Usages ==
    { NoUsage } \cup
        { NewPolicySessionUsage(c, a) :
            c \in { NVChangeAuth, HierarchyChangeAuth }, a \in BOOLEAN }

ComputedAlgorithms == { { "SHA256" }, { "SHA1" } }

PolicyInit == codec = NoCodec /\ RestInit

PolicyExecute ==
    /\ pol.pc = "idle"
    /\ \E policy \in Policies, alg \in HashAlgorithms, computed \in ComputedAlgorithms,
          path \in BranchPaths, usage \in Usages :
            pol' = [ pc |-> "done", policy |-> policy, computed |-> computed,
                     path |-> path, usage |-> usage,
                     r |-> Execute(policy, alg, computed, path, usage) ]
    /\ UNCHANGED << codec, maxSubmissions, run, pendingResponse, lastExclusiveSession,
                    sessionData, rsps, call, multi, tkt, res, sas, ctx, dup, qn, att, hc, wire, ser, cmp, bpath, props, ln, epr >>

PolicyNext == PolicyExecute

SpecPolicy == PolicyInit /\ [][PolicyNext]_vars

\* ------------------------------------------------------------------------
\* Claims about Policy.Execute (SpecPolicy)
\* ------------------------------------------------------------------------

IsPrefix(s, t) == Len(s) <= Len(t) /\ SubSeq(t, 1, Len(s)) = s

\* The commands of a list of elements in document order when the nodes met
\* take the branches listed in selected, with what is left of that list.
RECURSIVE DocumentOrder(_, _)
DocumentOrder(elements, selected) ==
    IF elements = << >> THEN [log |-> << >>, selected |-> selected]
    ELSE
        LET e == Head(elements)
            inner == DocumentOrder(e.branches[Head(selected)].elements, Tail(selected))
            first ==
                IF e.kind = "OR"
                THEN [log |-> Append(inner.log, "PolicyOR"), selected |-> inner.selected]
                ELSE [log |-> << ElementCommand(e) >>, selected |-> selected]
            rest == DocumentOrder(Tail(elements), first.selected)
        IN  [log |-> first.log \o rest.log, selected |-> rest.selected]

\* The branches that the path and the usage of the call select.
ResolvedBranches ==
    runElements(pol.policy, NewSession(pol.r.alg, pol.path), pol.usage, pol.computed, TRUE)

Succeeded == pol.pc = "done" /\ pol.r.err = ""

\* C11: the commands sent are, in order, those of the elements on the
\* selected path: the selected branch's commands (with the PolicyOR of the
\* nodes in it), one PolicyOR for the node, then what follows the node; no
\* command of a branch that was not selected is sent.  A call that fails
\* has sent a prefix of them.
C11_CommandsInDocumentOrder ==
    (pol.pc = "done" /\ ResolvedBranches.err = "") =>
        LET expected == DocumentOrder(pol.policy, ResolvedBranches.selected).log
        IN  /\ IsPrefix(pol.r.log, expected)
            /\ pol.r.err = "" => pol.r.log = expected

C11_Witness ==
    /\ Succeeded
    /\ pol.r.selected = << 2, 1 >>
    /\ pol.r.log = << "PolicyNvWritten", "PolicySecret", "PolicyCommandCode",
                      "PolicyOR", "PolicyOR" >>
    /\ \E k \in DOMAIN pol.policy :
        /\ pol.policy[k].kind = "OR"
        /\ pol.policy[k].branches[1].elements[1].kind = "AuthValue"

\* C12: after a successful Execute the session's policy digest is
\* ComputeFor(session algorithm) of the whole policy, whichever branch was
\* taken and however it was selected; the TPM never rejects the PolicyOR
\* of a node.
C12_DigestEqualsComputeFor ==
    pol.pc = "done" =>
        /\ pol.r.err # "TPM_RC_VALUE"
        /\ pol.r.err = "" => pol.r.digest = ComputeFor(pol.policy, pol.r.alg)

\* Both branches of one policy reach the digest: here the second, by
\* position, with distinct assertions in the two branches.
C12_Witness ==
    /\ Succeeded
    /\ pol.path = Selector(1)
    /\ pol.r.selected = << 2 >>
    /\ pol.policy[2].branches[1].elements # pol.policy[2].branches[2].elements
    /\ pol.r.digest = ComputeFor(pol.policy, pol.r.alg)
    /\ pol.r.digest.chain[1].cc = "PolicyOR"

PathErrors ==
    { "badly formatted path component", "selected path out of range", "no branch with name" }

\* Components that select no branch of any node: the name of no branch, a
\* selector that is not one, a position past the last branch.
BadComponents == { << "z" >>, << "$", "f" >>, Selector(MaxBranches) }

RightlyAutoSelected(node, i, usage) ==
    IF ~usage.present THEN i = 1
    ELSE
        /\ Satisfiable(node.branches[i].elements, usage)
        /\ \A j \in 1..(i - 1) : ~Satisfiable(node.branches[j].elements, usage)
        /\ \A k \in DOMAIN node.branches[i].elements :
            LET e == node.branches[i].elements[k]
            IN  /\ e.kind = "AuthValue" => usage.canUseAuthValue
                /\ e.kind = "CommandCode" => e.arg = usage.commandCode

NoneSatisfiable(node, usage) ==
    /\ usage.present
    /\ \A i \in DOMAIN node.branches : ~Satisfiable(node.branches[i].elements, usage)

C14_WitnessNoAppropriateBranches ==
    /\ pol.pc = "done"
    /\ pol.path = << >>
    /\ pol.r.err = "no appropriate branches"
    /\ pol.policy[2].branches[1].elements = << AuthValue >>
    /\ pol.policy[2].branches[2].elements = << CommandCode(NVChangeAuth) >>

\* The call met no branch-selection error and the policy holds no digest
\* for the session's algorithm.
RanWithoutDigests ==
    /\ pol.pc = "done"
    /\ pol.r.alg \notin pol.computed
    /\ pol.r.err \notin BranchSelectionErrors

HasHashElement ==
    \E k \in DOMAIN pol.policy : pol.policy[k].kind \in { "CpHash", "NameHash" }

C15_WitnessBranchDigestsComputed ==
    /\ RanWithoutDigests
    /\ pol.computed = { "SHA1" }
    /\ pol.path = BranchName(1)
    /\ ~HasHashElement
    /\ Succeeded

\* ------------------------------------------------------------------------
\* Policy.Execute of a PolicySecret / PolicySigned assertion: expiration,
\* tickets, PolicyRestart and a second Execute on the same session.
\* ------------------------------------------------------------------------

MaxExpiration == 1

Expirations == (0 - MaxExpiration)..MaxExpiration

\* The ticket the TPM returns for an assertion made with expiration < 0.
PolicyTicket(e) == [tag |-> e.kind, authName |-> e.arg, policyRef |-> policyRef]

\* No ticket is ever found for an assertion.
TicketForNone(e, tickets) == { }

TicketFor(e, tickets) ==
    { i \in DOMAIN tickets :
        /\ tickets[i].authName = e.arg
        /\ tickets[i].policyRef = policyRef
        /\ tickets[i].tag = e.kind }

\* The expiration the assertion is made with: that of the parameters given
\* for its (authName, policyRef), 0 when there are none.
RequestedExpiration(params) ==
    IF params.policyRef = policyRef THEN params.expiration ELSE 0

\* One PolicySecret or PolicySigned element.  With a ticket for its
\* (authName, policyRef) it is asserted by TPM2_PolicyTicket, which extends
\* the digest as the assertion does and needs no authorization.  Otherwise
\* the resource is authorized (PolicySecret) or the signed authorization
\* is looked up (PolicySigned), the assertion is made, and a ticket is
\* collected when the expiration is negative.
runAuthorized(e, r, params) ==
    IF TicketFor(e, params.tickets) # { }
    THEN [ TPMPolicyCommand(r, ElementCommand(e), e.arg) EXCEPT
                !.log = Append(r.log, "PolicyTicket") ]
    ELSE IF params.authorization = "none"
    THEN [ r EXCEPT !.err = "AuthorizationError" ]
    ELSE IF params.authorization = "bad"
    THEN [ r EXCEPT !.err = "AuthorizationError",
                    !.log = Append(@, ElementCommand(e)) ]
    ELSE [ TPMPolicyCommand(r, ElementCommand(e), e.arg) EXCEPT
                !.tickets = IF RequestedExpiration(params) < 0
                            THEN Append(@, PolicyTicket(e))
                            ELSE @ ]

\* Policy.Execute of << NvWritten, e >> on a session with the given digest;
\* the tickets collected are returned only when it succeeds.
ExecuteAuthorized(e, digest, params) ==
    LET r0 == [ alg |-> digest.alg, digest |-> digest, log |-> << >>, err |-> "",
                tickets |-> << >> ]
        r == runAuthorized(e, TPMPolicyCommand(r0, "PolicyNvWritten", NvWritten.arg), params)
    IN  IF r.err # "" THEN [r EXCEPT !.tickets = << >>] ELSE r

AuthorizedPolicy(e) == << NvWritten, e >>

Authorizations == { "ok", "bad", "none" }

ExecuteParams(ref, expiration, authorization, tickets) ==
    [ policyRef |-> ref, expiration |-> expiration,
      authorization |-> authorization, tickets |-> tickets ]

NoResult == [alg |-> "", digest |-> Zero(""), log |-> << >>, err |-> "", tickets |-> << >>]

TicketInit == codec = NoCodec /\ RestInit

\* The first Execute on a fresh policy session, without tickets.
TicketExecute ==
    /\ tkt.pc = "idle"
    /\ \E e \in { Secret, Signed }, ref \in { policyRef, "bar" },
          expiration \in Expirations, authorization \in Authorizations :
            LET params == ExecuteParams(ref, expiration, authorization, << >>)
            IN  tkt' = [ pc |-> "executed", e |-> e, params |-> params,
                         first |-> ExecuteAuthorized(e, Zero("SHA256"), params),
                         digest |-> ExecuteAuthorized(e, Zero("SHA256"), params).digest,
                         again |-> ExecuteParams("", 0, "none", << >>),
                         second |-> NoResult ]
    /\ UNCHANGED << codec, maxSubmissions, run, pendingResponse, lastExclusiveSession,
                    sessionData, rsps, call, multi, pol, res, sas, ctx, dup, qn, att, hc, wire, ser, cmp, bpath, props, ln, epr >>

\* TPM2_PolicyRestart: the session's digest is zero again.
TicketPolicyRestart ==
    /\ tkt.pc = "executed"
    /\ tkt' = [tkt EXCEPT !.pc = "restarted", !.digest = Zero(@.alg)]
    /\ UNCHANGED << codec, maxSubmissions, run, pendingResponse, lastExclusiveSession,
                    sessionData, rsps, call, multi, pol, res, sas, ctx, dup, qn, att, hc, wire, ser, cmp, bpath, props, ln, epr >>

\* The second Execute of the same policy on the restarted session: with or
\* without the tickets the first returned, and with any authorization.
TicketExecuteAgain ==
    /\ tkt.pc = "restarted"
    /\ \E supplied \in { << >>, tkt.first.tickets },
          expiration \in Expirations, authorization \in Authorizations :
            LET params == ExecuteParams(policyRef, expiration, authorization, supplied)
                result == ExecuteAuthorized(tkt.e, tkt.digest, params)
            IN  tkt' = [ tkt EXCEPT !.pc = "done", !.again = params,
                                    !.second = result, !.digest = result.digest ]
    /\ UNCHANGED << codec, maxSubmissions, run, pendingResponse, lastExclusiveSession,
                    sessionData, rsps, call, multi, pol, res, sas, ctx, dup, qn, att, hc, wire, ser, cmp, bpath, props, ln, epr >>

TicketNext == TicketExecute \/ TicketPolicyRestart \/ TicketExecuteAgain

SpecTickets == TicketInit /\ [][TicketNext]_vars

\* ------------------------------------------------------------------------
\* Claims about tickets (SpecTickets)
\* ------------------------------------------------------------------------

MaxCallerLoaded == 2
MaxSecrets == 2

HandleOwner == 0
PersistentHandle == 0 - 1

IsTransient(handle) == handle > 0

\* The TPM's object and session slots.
TPMLoaded(tpm, what) ==
    [ tpm EXCEPT !.loaded = @ \cup { tpm.next }, !.next = @ + 1,
                 !.cmds = Append(@, what) ]

TPMFlushContext(tpm, handle) ==
    [ tpm EXCEPT !.loaded = @ \ { handle }, !.cmds = Append(@, "FlushContext") ]

\* resourceContextFlushable: Flush does nothing without a flush function.
newResourceContextFlushable(handle, flush) == [handle |-> handle, flush |-> flush]

NoResource == newResourceContextFlushable(HandleOwner, FALSE)

Flush(tpm, rc) == IF rc.flush THEN TPMFlushContext(tpm, rc.handle) ELSE tpm

\* LoadName giving the object it loaded no flush function.
LoadedObjectFlushNil == FALSE

\* The flush function LoadName gives the object it loaded: FlushContext.
LoadedObjectFlush == TRUE

\* tpmPolicyResources.LoadName.  data.transient maps the name of a loadable
\* object to the name of its parent; fail names the step that fails.
RECURSIVE LoadName(_, _, _, _)
LoadName(tpm, name, data, fail) ==
    IF name = "owner"
    THEN [tpm |-> tpm, rc |-> newResourceContextFlushable(HandleOwner, FALSE), err |-> ""]
    ELSE IF name \in data.persistent
    THEN [tpm |-> tpm, rc |-> newResourceContextFlushable(PersistentHandle, FALSE), err |-> ""]
    ELSE IF name \in DOMAIN data.transient
    THEN
        LET p == LoadName(tpm, data.transient[name], data, fail)
            \* StartAuthSession; the deferred FlushContext(session) and
            \* parent.Flush() run on every return below
            started == [p.tpm EXCEPT !.cmds = Append(@, "StartAuthSession")]
            loaded == TPMLoaded(started, "Load")
            deferred(t) == Flush([t EXCEPT !.cmds = Append(@, "FlushContext")], p.rc)
        IN  IF p.err # ""
            THEN [tpm |-> p.tpm, rc |-> NoResource, err |-> "cannot load parent"]
            ELSE IF fail = "authorizeParent"
            THEN [tpm |-> deferred(started), rc |-> NoResource, err |-> "cannot authorize parent"]
            ELSE IF fail = "load"
            THEN [ tpm |-> deferred([started EXCEPT !.cmds = Append(@, "Load")]),
                   rc |-> NoResource, err |-> "TPM_RC_FAILURE" ]
            ELSE [ tpm |-> deferred(loaded),
                   rc |-> newResourceContextFlushable(started.next, LoadedObjectFlush),
                   err |-> "" ]
    ELSE [tpm |-> tpm, rc |-> NoResource, err |-> "resource not found"]

CacheEntry(cache, name) == CHOOSE c \in cache : c.name = name

WithCached(cache, name, typ, handle) ==
    { c \in cache : c.name # name } \cup { [name |-> name, typ |-> typ, handle |-> handle] }

\* executePolicyResources.loadName: a cached context is loaded again, a
\* cached resource is reused, anything else goes to LoadName and is cached
\* (a transient object as its saved context, unless ContextSave fails).
loadName(tpm, cache, name, data, fail) ==
    LET hit == \E c \in cache : c.name = name
        cached == CacheEntry(cache, name)
        l == LoadName(tpm, name, data, fail)
        saved == [l.tpm EXCEPT !.cmds = Append(@, "ContextSave")]
    IN  IF hit /\ cached.typ = "resource"
        THEN [ tpm |-> tpm, cache |-> cache, err |-> "",
               rc |-> newResourceContextFlushable(cached.handle, IsTransient(cached.handle)) ]
        ELSE IF hit /\ cached.typ = "context" /\ fail # "contextLoad"
        THEN [ tpm |-> TPMLoaded(tpm, "ContextLoad"), cache |-> cache, err |-> "",
               rc |-> newResourceContextFlushable(tpm.next, TRUE) ]
        ELSE IF l.err # ""
        THEN [tpm |-> l.tpm, cache |-> cache, err |-> l.err, rc |-> NoResource]
        ELSE IF IsTransient(l.rc.handle)
        THEN [ tpm |-> saved, err |-> "", rc |-> l.rc,
               cache |-> IF fail = "contextSave" THEN cache
                         ELSE WithCached(cache, name, "context", l.rc.handle) ]
        ELSE [ tpm |-> l.tpm, err |-> "", rc |-> l.rc,
               cache |-> WithCached(cache, name, "resource", l.rc.handle) ]

\* The runner's PolicySecret elements, one per name: the resource is
\* loaded, authorized and asserted, and flushed after the call whether or
\* not it succeeded.
RECURSIVE runSecrets(_, _, _, _)
runSecrets(names, st, data, fail) ==
    IF names = << >> \/ st.err # "" THEN st
    ELSE
        LET l == loadName(st.tpm, st.cache, Head(names), data, fail)
            asserted == [l.tpm EXCEPT !.cmds = Append(@, "PolicySecret")]
            next ==
                IF l.err # ""
                THEN [tpm |-> l.tpm, cache |-> l.cache, err |-> l.err]
                ELSE IF fail = "authorize"
                THEN [tpm |-> Flush(l.tpm, l.rc), cache |-> l.cache, err |-> "AuthorizationError"]
                ELSE IF fail = "policySecret"
                THEN [tpm |-> Flush(asserted, l.rc), cache |-> l.cache, err |-> "AuthorizationError"]
                ELSE [tpm |-> Flush(asserted, l.rc), cache |-> l.cache, err |-> ""]
        IN  runSecrets(Tail(names), next, data, fail)

ResourceNames == { "owner", "persistent", "object", "parent", "missing" }

\* PolicyResourcesData: the persistent resources and the loadable objects
\* with the names of their parents.
ResourcesData ==
    { [ persistent |-> { "persistent" },
        transient |-> [n \in { "object", "parent" } |->
                            IF n = "object" THEN p ELSE "owner"] ] :
        p \in { "owner", "persistent", "parent", "missing" } }

ResourceFailures ==
    { "none", "authorizeParent", "load", "contextSave", "contextLoad",
      "authorize", "policySecret" }

SecretNames == UNION { [1..n -> ResourceNames] : n \in 1..MaxSecrets }

ResourcesInit == codec = NoCodec /\ RestInit

\* Policy.Execute of the PolicySecret elements for names, with the objects
\* the caller has loaded in the TPM's first slots.
ResourcesExecute ==
    /\ res.pc = "idle"
    /\ \E names \in SecretNames, data \in ResourcesData, fail \in ResourceFailures,
          callerLoaded \in 1..MaxCallerLoaded :
            LET tpm == [loaded |-> 1..callerLoaded, next |-> callerLoaded + 1, cmds |-> << >>]
                st == runSecrets(names, [tpm |-> tpm, cache |-> { }, err |-> ""], data, fail)
            IN  res' = [ pc |-> "done", names |-> names, data |-> data, fail |-> fail,
                         callerLoaded |-> 1..callerLoaded,
                         tpm |-> st.tpm, cache |-> st.cache, err |-> st.err ]
    /\ UNCHANGED << codec, maxSubmissions, run, pendingResponse, lastExclusiveSession,
                    sessionData, rsps, call, multi, pol, tkt, sas, ctx, dup, qn, att, hc, wire, ser, cmp, bpath, props, ln, epr >>

ResourcesNext == ResourcesExecute

SpecResources == ResourcesInit /\ [][ResourcesNext]_vars

\* ------------------------------------------------------------------------
\* Claims about the resources of Policy.Execute (SpecResources)
\* ------------------------------------------------------------------------

Occurrences(cmds, what) == Cardinality({ i \in DOMAIN cmds : cmds[i] = what })

MaxNonce == 2

\* Resource contexts by the handle they hold: none, the null handle, or
\* the handle of an object.
NilContext == "nil"
HandleNull == "TPM_RH_NULL"
ObjectHandle == "object"

AuthHashes == { "SHA1", "SHA256", "unknown" }

\* digestSizes: 0 stands for an algorithm that is not in the table.
DigestSize(authHash) ==
    CASE authHash = "SHA1" -> 20
      [] authHash = "SHA256" -> 32
      [] OTHER -> 0

\* The authValue argument by its dynamic type, with the bytes it holds.
AuthValues ==
    { [type |-> "nil", bytes |-> << >>],
      [type |-> "string", bytes |-> << 97 >>],
      [type |-> "[]byte", bytes |-> << 1, 2 >>],
      [type |-> "int", bytes |-> << 7 >>] }

\* cryptKDFa as the term of its arguments; NoKey is the empty key.
cryptKDFa(hashAlg, key, label, contextU, contextV, sizeInBits) ==
    [ hashAlg |-> hashAlg, key |-> key, label |-> label, contextU |-> contextU,
      contextV |-> contextV, sizeInBits |-> sizeInBits ]

NoKey == cryptKDFa("", << >>, "", 0, 0, 0)

NoSession ==
    [ handle |-> 0, hashAlg |-> "", boundResource |-> NilContext, nonceCaller |-> 0,
      nonceTPM |-> 0, sessionKey |-> NoKey ]

\* The result of the call for its arguments, the nonceCaller drawn (nonceOk:
\* the random source gave one), and the TPM's answer (rc, and nonceTPM on
\* success).
StartAuthSessionResult(tpmKey, bind, bindValid, symmetric, authHash, authValue, nonceOk, nonceCaller, rc, nonceTPM) ==
    LET failed(err) == [err |-> err, sent |-> FALSE, salt |-> << >>, session |-> NoSession]
        salt == << >>
        tpmKeyUsed == IF tpmKey # NilContext THEN tpmKey ELSE HandleNull
        authB == IF bind # NilContext /\ authValue.type \in { "string", "[]byte" }
                 THEN authValue.bytes ELSE << >>
        bindUsed == IF bind # NilContext THEN bind ELSE HandleNull
        sessionKey ==
            IF tpmKeyUsed # HandleNull \/ bindUsed # HandleNull
            THEN cryptKDFa(authHash, authB \o salt, "ATH", nonceTPM, nonceCaller,
                           DigestSize(authHash) * 8)
            ELSE NoKey
    IN  IF tpmKey # NilContext
        THEN failed("no support for salted sessions yet")
        ELSE IF bind # NilContext /\ ~bindValid
        THEN failed("invalid resource context")
        ELSE IF symmetric
        THEN failed("no support for parameter / response encryption yet")
        ELSE IF DigestSize(authHash) = 0
        THEN failed("unsupported authHash value")
        ELSE IF bind # NilContext /\ authValue.type \notin { "nil", "string", "[]byte" }
        THEN failed("invalid auth value")
        ELSE IF ~nonceOk
        THEN failed("cannot compute initial nonceCaller")
        ELSE IF rc # "TPM_RC_SUCCESS"
        THEN [err |-> rc, sent |-> TRUE, salt |-> salt, session |-> NoSession]
        ELSE [ err |-> "", sent |-> TRUE, salt |-> salt,
               session |-> [ handle |-> 1, hashAlg |-> authHash, boundResource |-> bindUsed,
                             nonceCaller |-> nonceCaller, nonceTPM |-> nonceTPM,
                             sessionKey |-> sessionKey ] ]

\* The session context registered as soon as the command was sent.
addResourceContextOnceSent(result) == IF result.sent THEN { 1 } ELSE { }

\* cmds_session.go:85: the resource table after the call; the session
\* context is added when the call has got through every check and the
\* command.
addResourceContext(result) == IF result.err = "" THEN { result.session.handle } ELSE { }

SessionStartInit == codec = NoCodec /\ RestInit

StartAuthSession ==
    /\ sas.pc = "idle"
    /\ \E tpmKey \in { NilContext, ObjectHandle },
          bind \in { NilContext, HandleNull, ObjectHandle },
          bindValid \in BOOLEAN, symmetric \in BOOLEAN, authHash \in AuthHashes,
          authValue \in AuthValues, nonceCaller \in 1..MaxNonce, nonceTPM \in 1..MaxNonce,
          nonceOk \in BOOLEAN, rc \in { "TPM_RC_SUCCESS", "TPM_RC_HASH" } :
            LET result == StartAuthSessionResult(tpmKey, bind, bindValid, symmetric, authHash,
                                                 authValue, nonceOk, nonceCaller, rc, nonceTPM)
            IN  sas' = [ pc |-> "done", tpmKey |-> tpmKey, bind |-> bind,
                         bindValid |-> bindValid, symmetric |-> symmetric,
                         authHash |-> authHash, authValue |-> authValue,
                         nonceCaller |-> nonceCaller, nonceTPM |-> nonceTPM, rc |-> rc,
                         nonceOk |-> nonceOk,
                         err |-> result.err, sent |-> result.sent, salt |-> result.salt,
                         session |-> result.session,
                         resources |-> addResourceContext(result) ]
    /\ UNCHANGED << codec, maxSubmissions, run, pendingResponse, lastExclusiveSession,
                    sessionData, rsps, call, multi, pol, tkt, res, ctx, dup, qn, att, hc, wire, ser, cmp, bpath, props, ln, epr >>

SessionStartNext == StartAuthSession

SpecSessionStart == SessionStartInit /\ [][SessionStartNext]_vars

\* ------------------------------------------------------------------------
\* Claims about StartAuthSession (SpecSessionStart)
\* ------------------------------------------------------------------------

\* The call was made with arguments that are valid apart from tpmKey, a
\* nonceCaller was drawn, and the TPM answered with success.
StartableSession ==
    /\ sas.pc = "done"
    /\ sas.nonceOk
    /\ sas.bind = NilContext \/ sas.bindValid
    /\ ~sas.symmetric
    /\ sas.authHash # "unknown"
    /\ sas.authValue.type \in { "nil", "string", "[]byte" }
    /\ sas.rc = "TPM_RC_SUCCESS"

\* The bytes of the auth value of the bound entity.
BindAuthValue == IF sas.bind # NilContext THEN sas.authValue.bytes ELSE << >>

\* A context for an entity was given: not nil and not the null handle.
Provided(context) == context \notin { NilContext, HandleNull }

\* C18: with a tpmKey the call generates a salt, sends the command and
\* returns a session whose key is derived from the bind auth value
\* followed by the salt.
C18_TpmKeyStartsSaltedSession ==
    (StartableSession /\ Provided(sas.tpmKey)) =>
        /\ sas.err = ""
        /\ sas.sent
        /\ sas.salt # << >>
        /\ sas.session.sessionKey.key = BindAuthValue \o sas.salt

\* C19: the session key is empty when neither tpmKey nor bind is given, and
\* is KDFa(authHash, auth value of bind, "ATH", nonceTPM, nonceCaller)
\* exactly when one of them is.
C19_SessionKeyIffKeyOrBind ==
    StartableSession =>
        /\ sas.err = ""
        /\ IF Provided(sas.tpmKey) \/ Provided(sas.bind)
           THEN /\ sas.session.sessionKey # NoKey
                /\ sas.session.sessionKey.label = "ATH"
                /\ sas.session.sessionKey.contextU = sas.nonceTPM
                /\ sas.session.sessionKey.contextV = sas.nonceCaller
                /\ SubSeq(sas.session.sessionKey.key, 1, Len(BindAuthValue)) = BindAuthValue
           ELSE sas.session.sessionKey = NoKey

\* C19 for the calls without a tpmKey, which is what the code provides.
C19_SessionKeyIffBind ==
    (StartableSession /\ ~Provided(sas.tpmKey)) =>
        /\ sas.err = ""
        /\ IF Provided(sas.bind)
           THEN sas.session.sessionKey =
                    cryptKDFa(sas.authHash, BindAuthValue, "ATH", sas.nonceTPM,
                              sas.nonceCaller, DigestSize(sas.authHash) * 8)
           ELSE sas.session.sessionKey = NoKey

C19_SessionKeyIffBindWitness ==
    /\ StartableSession
    /\ sas.bind = ObjectHandle
    /\ sas.authValue.type = "string"
    /\ sas.nonceTPM # sas.nonceCaller
    /\ sas.session.sessionKey.key = << 97 >>

\* ------------------------------------------------------------------------
\* TPMContext.ContextSave / ContextLoad of a session HandleContext
\* (cmds_context_test.go:15-267)
\* ------------------------------------------------------------------------

MaxUses == 2
MaxSaves == 2

\* The session data of a context; a context made from a bare handle has
\* none.
SessionDatas ==
    [ isAudit : BOOLEAN, isExclusive : BOOLEAN, hashAlg : { "SHA1", "SHA256" },
      sessionType : { "HMAC", "Policy" }, isBound : BOOLEAN, nonceCaller : { 1 },
      nonceTPM : { 1 } ]

NoSessionData ==
    [ isAudit |-> FALSE, isExclusive |-> FALSE, hashAlg |-> "", sessionType |-> "",
      isBound |-> FALSE, nonceCaller |-> 0, nonceTPM |-> 0 ]

\* The session data as the context blob carries it, field after field, and
\* read back from the blob.
MarshalSessionData(d) ==
    << d.isAudit, d.isExclusive, d.hashAlg, d.sessionType, d.isBound, d.nonceCaller,
       d.nonceTPM >>

\* Session data read back with the nonces the session started with.
UnmarshalSessionDataStale(b) ==
    [ isAudit |-> b[1], isExclusive |-> b[2], hashAlg |-> b[3], sessionType |-> b[4],
      isBound |-> b[5], nonceCaller |-> 1, nonceTPM |-> 1 ]

UnmarshalSessionData(b) ==
    [ isAudit |-> b[1], isExclusive |-> b[2], hashAlg |-> b[3], sessionType |-> b[4],
      isBound |-> b[5], nonceCaller |-> b[6], nonceTPM |-> b[7] ]

NoBlob == [savedHandle |-> 0, hierarchy |-> "", data |-> << >>]

\* A HandleContext for the session: id tells the Go values apart.
SessionContext(id, data, hasData, loaded) ==
    [id |-> id, handle |-> 1, data |-> data, hasData |-> hasData, loaded |-> loaded]

ContextInit == codec = NoCodec /\ RestInit

\* StartAuthSession gives a complete, loaded context; a context obtained
\* for the bare handle of the session (GetOrCreateSessionContext) has no
\* session data.
ContextStart ==
    /\ ctx.pc = "idle"
    /\ \E data \in SessionDatas, complete \in BOOLEAN :
        ctx' = [ pc |-> "active",
                 sc |-> SessionContext(1, IF complete THEN data ELSE NoSessionData,
                                       complete, TRUE),
                 known |-> TRUE, tpmLoaded |-> TRUE, blob |-> NoBlob,
                 atSave |-> NoSessionData, held |-> 1, returned |-> 1, forgotten |-> FALSE,
                 op |-> "StartAuthSession", err |-> "", sent |-> TRUE,
                 uses |-> 0, saves |-> 0 ]
    /\ UNCHANGED << codec, maxSubmissions, run, pendingResponse, lastExclusiveSession,
                    sessionData, rsps, call, multi, pol, tkt, res, sas, dup, qn, att, hc, wire, ser, cmp, bpath, props, ln, epr >>

ErrUnusableSession == "invalid saveContext parameter: unusable session HandleContext"
ErrNotLoaded == "invalid resource context for session: not complete and loaded"

\* A command authorized with the session: refused on the host unless the
\* context is complete and loaded; a command that runs rolls the nonces.
ContextUse ==
    /\ ctx.pc = "active"
    /\ ctx.uses < MaxUses
    /\ IF ctx.sc.hasData /\ ctx.sc.loaded
       THEN ctx' = [ ctx EXCEPT !.op = "Use", !.err = "", !.sent = TRUE,
                                !.uses = @ + 1,
                                !.sc.data.nonceCaller = @ + 1,
                                !.sc.data.nonceTPM = @ + 2 ]
       ELSE ctx' = [ ctx EXCEPT !.op = "Use", !.err = ErrNotLoaded, !.sent = FALSE,
                                !.uses = @ + 1 ]
    /\ UNCHANGED << codec, maxSubmissions, run, pendingResponse, lastExclusiveSession,
                    sessionData, rsps, call, multi, pol, tkt, res, sas, dup, qn, att, hc, wire, ser, cmp, bpath, props, ln, epr >>

\* ContextSave of the loaded session context: a context without session
\* data is refused; otherwise the TPM saves the session, which is no longer
\* loaded, and the context is marked not loaded.
ContextSave ==
    /\ ctx.pc = "active"
    /\ ctx.sc.loaded
    /\ ctx.saves < MaxSaves
    /\ IF ~ctx.sc.hasData
       THEN ctx' = [ ctx EXCEPT !.op = "ContextSave", !.err = ErrUnusableSession,
                                !.sent = FALSE, !.saves = @ + 1 ]
       ELSE ctx' = [ ctx EXCEPT !.op = "ContextSave", !.err = "", !.sent = TRUE,
                                !.saves = @ + 1,
                                !.blob = [ savedHandle |-> ctx.sc.handle,
                                           hierarchy |-> HandleNull,
                                           data |-> MarshalSessionData(ctx.sc.data) ],
                                !.atSave = ctx.sc.data,
                                !.sc.loaded = FALSE,
                                !.tpmLoaded = FALSE ]
    /\ UNCHANGED << codec, maxSubmissions, run, pendingResponse, lastExclusiveSession,
                    sessionData, rsps, call, multi, pol, tkt, res, sas, dup, qn, att, hc, wire, ser, cmp, bpath, props, ln, epr >>

\* ForgetHandleContext: the TPMContext no longer tracks the context.
ContextForget ==
    /\ ctx.pc = "active"
    /\ ctx.known
    /\ ctx.blob # NoBlob
    /\ ctx' = [ctx EXCEPT !.op = "ForgetHandleContext", !.err = "", !.sent = FALSE,
                          !.known = FALSE]
    /\ UNCHANGED << codec, maxSubmissions, run, pendingResponse, lastExclusiveSession,
                    sessionData, rsps, call, multi, pol, tkt, res, sas, dup, qn, att, hc, wire, ser, cmp, bpath, props, ln, epr >>

\* ContextLoad of the saved blob: the session is loaded again under its
\* handle; the tracked context is returned, or a new one when it was
\* forgotten, with the session data read from the blob.
ContextLoad ==
    /\ ctx.pc = "active"
    /\ ctx.blob # NoBlob
    /\ LET id == IF ctx.known THEN ctx.sc.id ELSE ctx.sc.id + 1
       IN  ctx' = [ ctx EXCEPT !.op = "ContextLoad", !.err = "", !.sent = TRUE,
                               !.sc = [ id |-> id, handle |-> ctx.blob.savedHandle,
                                        data |-> UnmarshalSessionData(ctx.blob.data),
                                        hasData |-> TRUE, loaded |-> TRUE ],
                               !.held = ctx.sc.id, !.returned = id,
                               !.forgotten = ~ctx.known,
                               !.known = TRUE, !.tpmLoaded = TRUE, !.blob = NoBlob ]
    /\ UNCHANGED << codec, maxSubmissions, run, pendingResponse, lastExclusiveSession,
                    sessionData, rsps, call, multi, pol, tkt, res, sas, dup, qn, att, hc, wire, ser, cmp, bpath, props, ln, epr >>

ContextNext == ContextStart \/ ContextUse \/ ContextSave \/ ContextForget \/ ContextLoad

SpecContext == ContextInit /\ [][ContextNext]_vars

\* ------------------------------------------------------------------------
\* Claims about ContextSave / ContextLoad of a session (SpecContext)
\* ------------------------------------------------------------------------

C20_WitnessRefusedWhileSaved ==
    /\ ctx.pc = "active"
    /\ ctx.op = "Use"
    /\ ctx.blob # NoBlob
    /\ ctx.err = ErrNotLoaded


\* ------------------------------------------------------------------------
\* Claims about the layout of command and response packets (SpecCodec)
\* ------------------------------------------------------------------------

\* The bytes of p from position from (1-based) up to and including position to.
Slice(p, from, to) == IF to < from THEN << >> ELSE SubSeq(p, from, to)

\* C25: MarshalCommandPacket sets the tag to TPM_ST_SESSIONS exactly when the
\* auth area is non-empty and to TPM_ST_NO_SESSIONS otherwise; the packet is
\* the header, the handles, then (only with a non-empty auth area) the 32-bit
\* authSize and the auth entries, then the parameters; and the commandSize
\* field of the header is the byte length of the whole packet.
C25_CommandPacketLayout ==
    codec.op = "MarshalCommandPacket" =>
        LET p == codec.p
            nh == codec.numHandles * HandleSize
            aBytes == MarshalAuthArea(codec.authArea)
            first == HeaderSize + nh + 1
        IN  /\ Len(p) >= HeaderSize + nh
            /\ PacketTag(p) = (IF codec.authArea # << >> THEN TagSessions
                               ELSE TagNoSessions)
            /\ ReadU32(p, 3, Len(p)).val = Len(p)
            /\ PacketCode(p) = CommandUnseal
            /\ Slice(p, HeaderSize + 1, HeaderSize + nh) \in GenHandleBytes
            /\ IF codec.authArea # << >>
               THEN /\ Slice(p, first, first + 3) = U32(Len(aBytes))
                    /\ Slice(p, first + 4, first + 3 + Len(aBytes)) = aBytes
                    /\ Slice(p, first + 4 + Len(aBytes), Len(p)) = codec.parameters
               ELSE Slice(p, first, Len(p)) = codec.parameters

\* A packet with a handle, two auth entries and parameters was marshalled.
C25_Witness ==
    /\ codec.op = "MarshalCommandPacket"
    /\ codec.numHandles = 1
    /\ Len(codec.authArea) = 2
    /\ codec.parameters # << >>
    /\ PacketTag(codec.p) = TagSessions

\* A packet without auth area and with parameters was marshalled.
C25_WitnessNoSessions ==
    /\ codec.op = "MarshalCommandPacket"
    /\ codec.authArea = << >>
    /\ codec.parameters # << >>
    /\ PacketTag(codec.p) = TagNoSessions

\* The encoded length of the auth area of an unmarshalled response.
AuthAreaSize(authArea) == Len(MarshalAuthResponses(authArea))

\* C26: for every response packet that Unmarshal accepts with the success
\* code, the handle area is numHandles * 4 bytes and header, handles,
\* (under TPM_ST_SESSIONS) the parameterSize field, parameters and auth area
\* add up to responseSize, which equals the length of the packet; a packet
\* whose responseSize differs from its length, whose parameterSize exceeds
\* the remaining bytes, or which is longer than 4096 bytes is rejected.
C26_ResponsePacketSizes ==
    codec.op = "Unmarshal" =>
        LET p == codec.p
            out == codec.out
            nh == codec.numHandles * HandleSize
            responseSize == ReadU32(p, 3, Len(p))
            parameterSize == ReadU32(p, HeaderSize + nh + 1, Len(p))
        IN  /\ (out.err = "" /\ out.rc = Success) =>
                /\ Len(out.handles) = nh
                /\ responseSize.val = Len(p)
                /\ Len(p) = HeaderSize + Len(out.handles) + Len(out.parameters)
                            + (IF PacketTag(p) = TagSessions
                               THEN 4 + AuthAreaSize(out.authArea) ELSE 0)
            /\ (responseSize.ok /\ responseSize.val # Len(p)) => out.err # ""
            /\ (/\ responseSize.ok
                /\ PacketTag(p) = TagSessions
                /\ PacketCode(p) = Success
                /\ parameterSize.ok
                /\ parameterSize.val > Len(p) - (HeaderSize + nh + 4)) => out.err # ""
            /\ Len(p) > maxResponseSize => out.err # ""

\* A packet with a handle, parameters and two auth entries was accepted.
C26_Witness ==
    /\ codec.op = "Unmarshal"
    /\ codec.out.err = ""
    /\ codec.out.rc = Success
    /\ codec.numHandles = 1
    /\ codec.out.parameters # << >>
    /\ Len(codec.out.authArea) = 2

\* A packet of 4097 bytes whose responseSize is its length was rejected.
C26_WitnessTooLarge ==
    /\ codec.op = "Unmarshal"
    /\ Len(codec.p) = maxResponseSize + 1
    /\ ReadU32(codec.p, 3, Len(codec.p)).val = Len(codec.p)
    /\ codec.out.err = "packet too large"

\* A packet of exactly 4096 bytes was accepted.
C26_WitnessAtLimit ==
    /\ codec.op = "Unmarshal"
    /\ Len(codec.p) = maxResponseSize
    /\ codec.out.err = ""

\* A packet whose parameterSize exceeds the remaining bytes was rejected.
C26_WitnessParameterSize ==
    /\ codec.op = "Unmarshal"
    /\ codec.out.err = "cannot read parameters"

\* A packet whose responseSize differs from its length was rejected.
C26_WitnessResponseSize ==
    /\ codec.op = "Unmarshal"
    /\ codec.out.err = "invalid responseSize value"

\* ------------------------------------------------------------------------
\* Duplication blobs (util/object.go): SensitiveToDuplicate and
\* DuplicateToSensitive with inner and outer wrappers
\* ------------------------------------------------------------------------

MaxSensitiveLen == 2

RECURSIVE ByteSum(_)
ByteSum(b) == IF b = << >> THEN 0 ELSE (Head(b) + ByteSum(Tail(b))) % 256

\* A digest of one byte per algorithm: a checksum of the data that depends
\* on every byte, on the length and on the algorithm.
HashAlgorithmSHA1 == 4

HashAlgorithmSHA256 == 11

HashSum(alg, data) == << (ByteSum(data) * 7 + Len(data) * 13 + alg) % 256 >>

HMACSum(alg, key, data) == HashSum(alg, key \o HashSum(alg, key \o data))

IntegrityKey == << 73 >>

StorageKey == << 83 >>

\* internal.KDFa: sizeInBits / 8 bytes derived from key, label and contextU.
KDFa(alg, key, label, contextU, sizeInBits) ==
    [i \in 1..(sizeInBits \div 8) |->
        HashSum(alg, << i >> \o key \o label \o contextU)[1]]

\* The block cipher of the symmetric algorithm, on blocks of one byte.
BlockSize == 1

SymKeyBits == 8

BlockEncrypt(key, b) == (b * 5 + ByteSum(key) * 3 + 1) % 256

\* Cipher feedback mode: each byte is combined with the encryption of the
\* previous ciphertext byte, the first with the encryption of the IV.
RECURSIVE CFBEncrypt(_, _, _)
CFBEncrypt(key, prev, data) ==
    IF data = << >> THEN << >>
    ELSE LET c == (Head(data) + BlockEncrypt(key, prev)) % 256
         IN  << c >> \o CFBEncrypt(key, c, Tail(data))

RECURSIVE CFBDecrypt(_, _, _)
CFBDecrypt(key, prev, data) ==
    IF data = << >> THEN << >>
    ELSE << (Head(data) + 256 - BlockEncrypt(key, prev)) % 256 >>
         \o CFBDecrypt(key, Head(data), Tail(data))

CryptSymmetricEncrypt(key, iv, data) == CFBEncrypt(key, iv[1], data)

CryptSymmetricDecrypt(key, iv, data) == CFBDecrypt(key, iv[1], data)

ZeroIV == [i \in 1..BlockSize |-> 0]

\* Symmetric algorithm definitions: a nil pointer, the null algorithm, AES.
SymNil == [algorithm |-> "nil", keyBits |-> 0]

SymNull == [algorithm |-> "Null", keyBits |-> 0]

SymAES == [algorithm |-> "AES", keyBits |-> SymKeyBits]

\* The sensitive area as a sized structure: type, authValue, seedValue and
\* the sensitive value.
MarshalSensitive(s) ==
    Sized(U16(s.type) \o Sized(s.authValue) \o Sized(s.seedValue) \o Sized(s.sensitive))

NilSensitive == [type |-> 0, authValue |-> << >>, seedValue |-> << >>, sensitive |-> << >>]

UnmarshalSensitive(p) ==
    LET body == ReadSized(p, 1, Len(p))
        b == body.val
        type == ReadU16(b, 1, Len(b))
        authValue == ReadSized(b, type.pos, Len(b))
        seedValue == ReadSized(b, authValue.pos, Len(b))
        sensitive == ReadSized(b, seedValue.pos, Len(b))
    IN  IF ~body.ok \/ ~type.ok \/ ~authValue.ok \/ ~seedValue.ok \/ ~sensitive.ok
        THEN [sensitive |-> NilSensitive, err |-> "cannot unmarhsal sensitive"]
        ELSE [sensitive |-> [type |-> type.val, authValue |-> authValue.val,
                             seedValue |-> seedValue.val, sensitive |-> sensitive.val],
              err |-> ""]

HashAlgorithmNull == 16

HashAlgorithms2 == {HashAlgorithmSHA1, HashAlgorithmSHA256}

\* Name.Type(): an empty name, a 4-byte handle, or an algorithm identifier
\* followed by a digest of that algorithm's size (one byte here).
NameType(name) ==
    IF Len(name) = 0 THEN "none"
    ELSE IF Len(name) = HandleSize THEN "handle"
    ELSE IF Len(name) = 3 /\ ReadU16(name, 1, 2).val \in HashAlgorithms2 THEN "digest"
    ELSE "invalid"

\* name.Algorithm(): the first two bytes of a digest name, else the null
\* algorithm.
NameAlgorithm(name) ==
    IF NameType(name) = "digest" THEN ReadU16(name, 1, 2).val ELSE HashAlgorithmNull

\* UnwrapOuter with an IV expected in the blob whatever useIV says.
UnwrapOuterExpectIV(hashAlg, symmetricAlg, name, seed, useIV, data) ==
    LET integrity == ReadSized(data, 1, Len(data))
        rest == Slice(data, integrity.pos, Len(data))
        hmacKey == KDFa(hashAlg, seed, IntegrityKey, << >>, 8)
        iv == ReadSized(rest, 1, Len(rest))
        symKey == KDFa(hashAlg, seed, StorageKey, name, symmetricAlg.keyBits)
    IN  IF ~integrity.ok THEN [data |-> << >>, err |-> "cannot unpack integrity digest"]
        ELSE IF HMACSum(hashAlg, hmacKey, rest \o name) # integrity.val
        THEN [data |-> << >>, err |-> "integrity digest is invalid"]
        ELSE IF ~iv.ok THEN [data |-> << >>, err |-> "cannot unpack IV"]
        ELSE IF Len(iv.val) # BlockSize
        THEN [data |-> << >>, err |-> "IV has the wrong size"]
        ELSE [data |-> CryptSymmetricDecrypt(symKey, iv.val,
                                             Slice(rest, iv.pos, Len(rest))),
              err |-> ""]

\* UnwrapOuter (util/object.go:30-69)
UnwrapOuter(hashAlg, symmetricAlg, name, seed, useIV, data) ==
    LET integrity == ReadSized(data, 1, Len(data))
        rest == Slice(data, integrity.pos, Len(data))
        hmacKey == KDFa(hashAlg, seed, IntegrityKey, << >>, 8)
        iv == IF useIV THEN ReadSized(rest, 1, Len(rest))
              ELSE [ok |-> TRUE, val |-> ZeroIV, pos |-> 1]
        symKey == KDFa(hashAlg, seed, StorageKey, name, symmetricAlg.keyBits)
    IN  IF ~integrity.ok THEN [data |-> << >>, err |-> "cannot unpack integrity digest"]
        ELSE IF HMACSum(hashAlg, hmacKey, rest \o name) # integrity.val
        THEN [data |-> << >>, err |-> "integrity digest is invalid"]
        ELSE IF ~iv.ok THEN [data |-> << >>, err |-> "cannot unpack IV"]
        ELSE IF Len(iv.val) # BlockSize
        THEN [data |-> << >>, err |-> "IV has the wrong size"]
        ELSE [data |-> CryptSymmetricDecrypt(symKey, iv.val,
                                             Slice(rest, iv.pos, Len(rest))),
              err |-> ""]

\* ProduceOuterWrap (util/object.go:80-107); iv is the IV that rand.Read
\* produces when useIV.
ProduceOuterWrap(hashAlg, symmetricAlg, name, seed, useIV, data, iv) ==
    LET symKey == KDFa(hashAlg, seed, StorageKey, name, symmetricAlg.keyBits)
        enc == CryptSymmetricEncrypt(symKey, IF useIV THEN iv ELSE ZeroIV, data)
        body == IF useIV THEN Sized(iv) \o enc ELSE enc
        hmacKey == KDFa(hashAlg, seed, IntegrityKey, << >>, 8)
    IN  Sized(HMACSum(hashAlg, hmacKey, body \o name)) \o body

HasInnerWrapper(symmetricAlg) == symmetricAlg.algorithm \notin {"nil", "Null"}

\* DuplicateToSensitive (util/object.go:152-198)
DuplicateToSensitive(duplicate, name, parentNameAlg, parentSymmetricAlg, seed, symmetricAlg, innerSymKey) ==
    LET outer == IF Len(seed) > 0
                 THEN UnwrapOuter(parentNameAlg, parentSymmetricAlg, name, seed, FALSE,
                                  duplicate)
                 ELSE [data |-> duplicate, err |-> ""]
        dec == CryptSymmetricDecrypt(innerSymKey, ZeroIV, outer.data)
        innerIntegrity == ReadSized(dec, 1, Len(dec))
        inner == Slice(dec, innerIntegrity.pos, Len(dec))
    IN  IF outer.err # ""
        THEN [sensitive |-> NilSensitive, err |-> "cannot unwrap outer wrapper"]
        ELSE IF ~HasInnerWrapper(symmetricAlg) THEN UnmarshalSensitive(outer.data)
        ELSE IF ~innerIntegrity.ok
        THEN [sensitive |-> NilSensitive, err |-> "cannot unpack inner integrity digest"]
        ELSE IF HashSum(NameAlgorithm(name), inner \o name) # innerIntegrity.val
        THEN [sensitive |-> NilSensitive, err |-> "inner integrity digest is invalid"]
        ELSE UnmarshalSensitive(inner)

\* SensitiveToDuplicate (util/object.go:210-262); random is the key that
\* rand.Read produces when no inner key is supplied.
SensitiveToDuplicate(sensitive, name, parent, seed, symmetricAlg, innerSymKey, random) ==
    LET plain == MarshalSensitive(sensitive)
        generated == HasInnerWrapper(symmetricAlg) /\ Len(innerSymKey) = 0
        key == IF generated THEN random ELSE innerSymKey
        inner == IF HasInnerWrapper(symmetricAlg)
                 THEN CryptSymmetricEncrypt(key, ZeroIV,
                          Sized(HashSum(NameAlgorithm(name), plain \o name)) \o plain)
                 ELSE plain
        outer == IF Len(seed) > 0
                 THEN ProduceOuterWrap(parent.nameAlg, parent.symmetric, name, seed, FALSE,
                                       inner, ZeroIV)
                 ELSE inner
    IN  [innerSymKeyOut |-> IF generated THEN random ELSE << >>, duplicate |-> outer]

Bytes(maxLen) == UNION { [1..n -> {0, 200}] : n \in 0..maxLen }

Sensitives ==
    { [type |-> t, authValue |-> a, seedValue |-> << >>, sensitive |-> v] :
        t \in {1, 8}, a \in Bytes(1), v \in Bytes(MaxSensitiveLen) }

ObjectNames == { U16(HashAlgorithmSHA256) \o << 1 >>, U16(HashAlgorithmSHA1) \o << 2 >> }

Parents == { [nameAlg |-> HashAlgorithmSHA256, symmetric |-> SymAES] }

Seeds == { << >>, << 3 >>, << 4, 4 >> }

InnerKeys == { << >>, << 17 >>, << 18 >> }

NoSensitiveResult == [sensitive |-> NilSensitive, err |-> ""]

DuplicateInit ==
    /\ codec = NoCodec
    /\ RestInit

\* A caller wraps a sensitive area for a new parent.
DuplicateWrap ==
    /\ dup.pc = "idle"
    /\ \E sensitive \in Sensitives, name \in ObjectNames, parent \in Parents,
          seed \in Seeds, symmetricAlg \in {SymNil, SymNull, SymAES},
          innerSymKey \in InnerKeys, random \in InnerKeys \ {<< >>} :
        LET out == SensitiveToDuplicate(sensitive, name, parent, seed, symmetricAlg,
                                        innerSymKey, random)
        IN  dup' = [pc |-> "wrapped", sensitive |-> sensitive, name |-> name,
                    parent |-> parent, seed |-> seed, symmetricAlg |-> symmetricAlg,
                    innerSymKey |-> innerSymKey, innerSymKeyOut |-> out.innerSymKeyOut,
                    duplicate |-> out.duplicate, unName |-> << >>, unSeed |-> << >>,
                    unKey |-> << >>, back |-> NoSensitiveResult]
    /\ UNCHANGED << codec, maxSubmissions, run, pendingResponse, lastExclusiveSession,
                    sessionData, rsps, call, multi, pol, tkt, res, sas, ctx, qn, att, hc, wire, ser, cmp, bpath, props, ln, epr >>

\* The receiver unwraps the blob with a name, a seed and an inner key, which
\* may or may not be the ones the blob was made with.
DuplicateUnwrap ==
    /\ dup.pc = "wrapped"
    /\ \E name \in ObjectNames, seed \in {dup.seed} \cup {<< 3 >>},
          key \in {dup.innerSymKey, dup.innerSymKeyOut} \cup {<< 18 >>} :
        dup' = [dup EXCEPT !.pc = "unwrapped", !.unName = name, !.unSeed = seed,
                           !.unKey = key,
                           !.back = DuplicateToSensitive(dup.duplicate, name,
                                        dup.parent.nameAlg, dup.parent.symmetric, seed,
                                        dup.symmetricAlg, key)]
    /\ UNCHANGED << codec, maxSubmissions, run, pendingResponse, lastExclusiveSession,
                    sessionData, rsps, call, multi, pol, tkt, res, sas, ctx, qn, att, hc, wire, ser, cmp, bpath, props, ln, epr >>

DuplicateNext == DuplicateWrap \/ DuplicateUnwrap

SpecDuplicate == DuplicateInit /\ [][DuplicateNext]_vars

\* The inner key a receiver has to use: the supplied one, or the generated
\* one that SensitiveToDuplicate returned.
InnerKeyOf(d) == IF d.innerSymKeyOut # << >> THEN d.innerSymKeyOut ELSE d.innerSymKey

UnwrappedAsWrapped ==
    /\ dup.pc = "unwrapped"
    /\ dup.unName = dup.name
    /\ dup.unSeed = dup.seed
    /\ HasInnerWrapper(dup.symmetricAlg) => dup.unKey = InnerKeyOf(dup)

\* C27: DuplicateToSensitive applied to the blob of SensitiveToDuplicate, with
\* the same name, seed, parent and symmetric algorithm and the supplied or
\* returned inner key, succeeds and yields the original sensitive area, with
\* and without inner wrapper and with and without outer wrapper.
C27_DuplicateRoundTrip ==
    UnwrappedAsWrapped => (dup.back.err = "" /\ dup.back.sensitive = dup.sensitive)

\* A blob with both wrappers and a generated inner key was unwrapped.
C27_Witness ==
    /\ UnwrappedAsWrapped
    /\ HasInnerWrapper(dup.symmetricAlg)
    /\ dup.seed # << >>
    /\ dup.innerSymKeyOut # << >>
    /\ Len(dup.sensitive.sensitive) = MaxSensitiveLen
    /\ dup.back.sensitive = dup.sensitive

\* A blob without any wrapper was unwrapped.
C27_WitnessNoWrapper ==
    /\ UnwrappedAsWrapped
    /\ ~HasInnerWrapper(dup.symmetricAlg)
    /\ dup.seed = << >>
    /\ dup.back.sensitive = dup.sensitive

\* A blob with a supplied inner key and an outer wrapper was unwrapped.
C27_WitnessSuppliedKey ==
    /\ UnwrappedAsWrapped
    /\ HasInnerWrapper(dup.symmetricAlg)
    /\ dup.innerSymKey # << >>
    /\ dup.innerSymKeyOut = << >>
    /\ dup.seed # << >>
    /\ dup.back.sensitive = dup.sensitive

\* Unwrapping with another name fails the integrity check.
C27_WitnessWrongName ==
    /\ dup.pc = "unwrapped"
    /\ dup.unName # dup.name
    /\ dup.back.err = "cannot unwrap outer wrapper"

\* ------------------------------------------------------------------------
\* Qualified names (package util): ComputeQualifiedName and
\* ComputeQualifiedNameInHierarchy
\* ------------------------------------------------------------------------

MaxAncestors == 3

QNError(e) == [qn |-> << >>, err |-> e]

\* computeOneQualifiedName; entity is the name of the entity.
computeOneQualifiedName(entity, parentQn) ==
    IF NameAlgorithm(entity) = HashAlgorithmNull THEN QNError("invalid name")
    ELSE IF NameType(parentQn) = "invalid" THEN QNError("invalid parent qualified name")
    ELSE IF /\ NameAlgorithm(parentQn) # HashAlgorithmNull
            /\ NameAlgorithm(parentQn) # NameAlgorithm(entity)
    THEN QNError("name algorithm mismatch")
    ELSE [qn |-> U16(NameAlgorithm(entity))
                 \o HashSum(NameAlgorithm(entity), parentQn \o entity),
          err |-> ""]

\* The loop of ComputeQualifiedName over the ancestors, from lastQn.
RECURSIVE ancestorsQualifiedName(_, _)
ancestorsQualifiedName(lastQn, ancestors) ==
    IF ancestors = << >> THEN [qn |-> lastQn, err |-> ""]
    ELSE LET next == computeOneQualifiedName(Head(ancestors), lastQn)
         IN  IF next.err # "" THEN QNError("cannot compute intermediate QN for ancestor")
             ELSE ancestorsQualifiedName(next.qn, Tail(ancestors))

\* ComputeQualifiedName with the loop started from the empty name instead of
\* rootQn.
ComputeQualifiedNameFromEmptyRoot(entity, rootQn, ancestors) ==
    LET lastQn == ancestorsQualifiedName(<< >>, ancestors)
    IN  IF lastQn.err # "" THEN lastQn ELSE computeOneQualifiedName(entity, lastQn.qn)

\* ComputeQualifiedName (lines 39-52)
ComputeQualifiedName(entity, rootQn, ancestors) ==
    LET lastQn == ancestorsQualifiedName(rootQn, ancestors)
    IN  IF lastQn.err # "" THEN lastQn ELSE computeOneQualifiedName(entity, lastQn.qn)

\* Hierarchy handles on the wire: owner, null, endorsement, platform.
Hierarchies == { << 64, 0, 0, 1 >>, << 64, 0, 0, 7 >>, << 64, 0, 0, 11 >>, << 64, 0, 0, 12 >> }

\* TPM_RS_PW, which is a handle and no hierarchy.
HandlePWBytes == << 64, 0, 0, 9 >>

ComputeQualifiedNameInHierarchy(entity, hierarchy, ancestors) ==
    IF hierarchy \notin Hierarchies THEN QNError("invalid hierarchy")
    ELSE ComputeQualifiedName(entity, hierarchy, ancestors)

\* Names of entities: digest names of two algorithms, and a handle name.
EntityNames ==
    { U16(HashAlgorithmSHA256) \o << 1 >>, U16(HashAlgorithmSHA256) \o << 2 >>,
      U16(HashAlgorithmSHA1) \o << 1 >>, << 64, 0, 0, 1 >> }

AncestorLists == UNION { [1..n -> EntityNames] : n \in 0..MaxAncestors }

QualifiedNameInit ==
    /\ codec = NoCodec
    /\ RestInit

\* The qualified name of a child computed in one call, and computed from the
\* qualified name of its k-th ancestor (k = 0: from the hierarchy itself).
QualifiedNameCompute ==
    /\ qn.pc = "idle"
    /\ \E hierarchy \in { << 64, 0, 0, 1 >>, << 64, 0, 0, 11 >>, HandlePWBytes },
          ancestors \in AncestorLists, child \in EntityNames :
        \E k \in 0..Len(ancestors) :
            LET partial ==
                    IF k = 0
                    THEN [qn |-> hierarchy,
                          err |-> IF hierarchy \in Hierarchies THEN ""
                                  ELSE "invalid hierarchy"]
                    ELSE ComputeQualifiedNameInHierarchy(ancestors[k], hierarchy,
                                                         SubSeq(ancestors, 1, k - 1))
            IN  qn' = [pc |-> "done", hierarchy |-> hierarchy, ancestors |-> ancestors,
                       child |-> child, k |-> k, partial |-> partial,
                       whole |-> ComputeQualifiedNameInHierarchy(child, hierarchy,
                                                                 ancestors),
                       composed |-> IF partial.err # "" THEN partial
                                    ELSE ComputeQualifiedName(child, partial.qn,
                                             SubSeq(ancestors, k + 1, Len(ancestors)))]
    /\ UNCHANGED << codec, maxSubmissions, run, pendingResponse, lastExclusiveSession,
                    sessionData, rsps, call, multi, pol, tkt, res, sas, ctx, dup, att, hc, wire, ser, cmp, bpath, props, ln, epr >>

QualifiedNameNext == QualifiedNameCompute

SpecQualifiedName == QualifiedNameInit /\ [][QualifiedNameNext]_vars

\* The ancestors and the child of the computation share one name algorithm,
\* under a hierarchy.
OneNameAlgorithm ==
    /\ qn.pc = "done"
    /\ qn.hierarchy \in Hierarchies
    /\ NameAlgorithm(qn.child) # HashAlgorithmNull
    /\ \A i \in 1..Len(qn.ancestors) :
        NameAlgorithm(qn.ancestors[i]) = NameAlgorithm(qn.child)

\* C28: for a hierarchy h, ancestors a1..an and a child c sharing one name
\* algorithm, and every k in 0..n, ComputeQualifiedName of c from the
\* qualified name of ak (computed from h with a1..a(k-1)) with the ancestors
\* a(k+1)..an is the qualified name ComputeQualifiedNameInHierarchy(c, h,
\* a1..an).
C28_QualifiedNameComposes ==
    OneNameAlgorithm =>
        /\ qn.whole.err = ""
        /\ qn.composed.err = ""
        /\ qn.composed.qn = qn.whole.qn
        /\ NameType(qn.whole.qn) = "digest"

\* The chain of three ancestors was split in the middle.
C28_Witness ==
    /\ OneNameAlgorithm
    /\ Len(qn.ancestors) = MaxAncestors
    /\ qn.k = 2
    /\ qn.composed.qn = qn.whole.qn

\* The chain was split at the hierarchy (k = 0) and at the last ancestor.
C28_WitnessEnds ==
    /\ OneNameAlgorithm
    /\ Len(qn.ancestors) = 2
    /\ qn.k \in {0, 2}
    /\ qn.composed.qn = qn.whole.qn

\* ------------------------------------------------------------------------
\* SessionContext attribute methods: SetAttrs, WithAttrs, IncludeAttrs,
\* ExcludeAttrs (resources_test.go:272-309)
\* ------------------------------------------------------------------------

MaxContexts == 3

SessionAttrs == {"AttrContinueSession", "AttrAudit", "AttrResponseEncrypt"}

AttrArgs == {{}, {"AttrAudit"}, {"AttrContinueSession", "AttrResponseEncrypt"}, SessionAttrs}

SessionHandle == 33554433

\* SessionContext.WithAttrs: a copy of the context with the attributes given.
WithAttrs(s, attrs) == [s EXCEPT !.attrs = attrs]

\* SessionContext.ExcludeAttrs: a copy of the context without the attributes
\* given.
ExcludeAttrs(s, attrs) == [s EXCEPT !.attrs = @ \ attrs]

\* The session context that StartAuthSession returns: no attributes.
StartedSession == [handle |-> SessionHandle, name |-> U32(SessionHandle), attrs |-> {}]

AttrsInit ==
    /\ codec = NoCodec
    /\ RestInit

AttrsStart ==
    /\ att.pc = "idle"
    /\ att' = [pc |-> "started", contexts |-> << StartedSession >>, op |-> "", recv |-> 0,
               arg |-> {}, before |-> << >>]
    /\ UNCHANGED << codec, maxSubmissions, run, pendingResponse, lastExclusiveSession,
                    sessionData, rsps, call, multi, pol, tkt, res, sas, ctx, dup, qn, hc, wire, ser, cmp, bpath, props, ln, epr >>

\* session.SetAttrs(attrs) on the i-th context held by the caller.
AttrsSetAttrs ==
    /\ att.pc = "started"
    /\ \E i \in 1..Len(att.contexts), attrs \in AttrArgs :
        att' = [att EXCEPT !.contexts[i].attrs = attrs, !.op = "SetAttrs", !.recv = i,
                           !.arg = attrs, !.before = att.contexts]
    /\ UNCHANGED << codec, maxSubmissions, run, pendingResponse, lastExclusiveSession,
                    sessionData, rsps, call, multi, pol, tkt, res, sas, ctx, dup, qn, hc, wire, ser, cmp, bpath, props, ln, epr >>

\* The caller keeps the context that method op returns for the i-th context.
AttrsDerive(op, i, attrs, result) ==
    /\ att.pc = "started"
    /\ Len(att.contexts) < MaxContexts
    /\ att' = [att EXCEPT !.contexts = Append(@, result), !.op = op, !.recv = i,
                          !.arg = attrs, !.before = att.contexts]
    /\ UNCHANGED << codec, maxSubmissions, run, pendingResponse, lastExclusiveSession,
                    sessionData, rsps, call, multi, pol, tkt, res, sas, ctx, dup, qn, hc, wire, ser, cmp, bpath, props, ln, epr >>

AttrsWithAttrs ==
    /\ att.pc = "started"
    /\ \E i \in 1..Len(att.contexts), attrs \in AttrArgs :
        AttrsDerive("WithAttrs", i, attrs, WithAttrs(att.contexts[i], attrs))

AttrsIncludeAttrs ==
    /\ att.pc = "started"
    /\ \E i \in 1..Len(att.contexts), attrs \in AttrArgs :
        AttrsDerive("IncludeAttrs", i, attrs, IncludeAttrs(att.contexts[i], attrs))

AttrsExcludeAttrs ==
    /\ att.pc = "started"
    /\ \E i \in 1..Len(att.contexts), attrs \in AttrArgs :
        AttrsDerive("ExcludeAttrs", i, attrs, ExcludeAttrs(att.contexts[i], attrs))

AttrsNext ==
    AttrsStart \/ AttrsSetAttrs \/ AttrsWithAttrs \/ AttrsIncludeAttrs \/ AttrsExcludeAttrs

SpecAttrs == AttrsInit /\ [][AttrsNext]_vars

\* The attributes the context returned by method op has, for a receiver with
\* attributes old.
ReturnedAttrs(op, old, arg) ==
    IF op = "WithAttrs" THEN arg
    ELSE IF op = "IncludeAttrs" THEN old \cup arg
    ELSE old \ arg

\* C30: WithAttrs, IncludeAttrs and ExcludeAttrs return a context with the
\* receiver's handle and name whose attributes are the given set, the union
\* with it and the difference from it, and leave the attributes of the
\* receiver (and of every other context) as they were; SetAttrs changes the
\* attributes of the receiver, and only of the receiver, to the given set.
C30_AttrsMethodsFrame ==
    (att.pc = "started" /\ att.op # "") =>
        LET old == att.before[att.recv]
        IN  IF att.op = "SetAttrs"
            THEN att.contexts = [att.before EXCEPT ![att.recv].attrs = att.arg]
            ELSE /\ Len(att.contexts) = Len(att.before) + 1
                 /\ SubSeq(att.contexts, 1, Len(att.before)) = att.before
                 /\ att.contexts[Len(att.contexts)] =
                        [handle |-> old.handle, name |-> old.name,
                         attrs |-> ReturnedAttrs(att.op, old.attrs, att.arg)]

\* IncludeAttrs on a context with attributes added others and left the
\* receiver's as they were.
C30_Witness ==
    /\ att.pc = "started"
    /\ att.op = "IncludeAttrs"
    /\ att.before[att.recv].attrs = {"AttrAudit"}
    /\ att.arg = {"AttrContinueSession", "AttrResponseEncrypt"}
    /\ att.contexts[Len(att.contexts)].attrs = SessionAttrs
    /\ att.contexts[att.recv].attrs = {"AttrAudit"}

\* ExcludeAttrs removed attributes from the returned context only.
C30_WitnessExclude ==
    /\ att.pc = "started"
    /\ att.op = "ExcludeAttrs"
    /\ att.before[att.recv].attrs = SessionAttrs
    /\ att.arg = {"AttrAudit"}
    /\ att.contexts[Len(att.contexts)].attrs = {"AttrContinueSession", "AttrResponseEncrypt"}
    /\ att.contexts[att.recv].attrs = SessionAttrs

\* SetAttrs changed the receiver while a context derived from it kept its
\* attributes.
C30_WitnessSetAttrs ==
    /\ att.pc = "started"
    /\ att.op = "SetAttrs"
    /\ att.recv = 1
    /\ Len(att.contexts) = 2
    /\ att.contexts[1].attrs = {"AttrAudit"}
    /\ att.contexts[2].attrs = SessionAttrs

\* ------------------------------------------------------------------------
\* Release of TPM resources behind handle contexts: FlushContext,
\* EvictControl and GetOrCreateResourceContext (cmds_context_test.go:270-381)
\* ------------------------------------------------------------------------

MaxTransients == 2

MaxPersistents == 2

MaxHandleContexts == 3

HandleUnassigned == [type |-> "unassigned", index |-> 0]

TransientHandles == { [type |-> "transient", index |-> i] : i \in 1..MaxTransients }

PersistentHandles == { [type |-> "persistent", index |-> i] : i \in 1..MaxPersistents }

PublicNames == { << 0, 11, 1 >>, << 0, 11, 2 >> }

NilHandleContext == [handle |-> HandleUnassigned, name |-> << >>]

\* The objects of a TPM are records [handle, name]; the handles in use.
TPMHandles(objects) == { o.handle : o \in objects }

TPMName(objects, handle) == (CHOOSE o \in objects : o.handle = handle).name

\* The context keeps its name and gives up its handle.
invalidateKeepingHandle(c) == c

\* The host side of a release: the context's handle becomes HandleUnassigned.
invalidate(c) == [c EXCEPT !.handle = HandleUnassigned]

NoHandleResult == [op |-> "", recv |-> 0, handle |-> HandleUnassigned,
                   out |-> NilHandleContext, err |-> ""]

\* TPMContext.GetOrCreateResourceContext: the caller's context for the handle
\* if there is one, else a context made from what the TPM holds at the handle.
GetOrCreateResourceContext(objects, contexts, handle) ==
    IF \E i \in 1..Len(contexts) : contexts[i].handle = handle
    THEN [out |-> contexts[CHOOSE i \in 1..Len(contexts) : contexts[i].handle = handle],
          err |-> ""]
    ELSE IF handle \in TPMHandles(objects)
    THEN [out |-> [handle |-> handle, name |-> TPMName(objects, handle)], err |-> ""]
    ELSE [out |-> NilHandleContext, err |-> "ResourceUnavailableError"]

HandlesInit ==
    /\ codec = NoCodec
    /\ RestInit

HandlesOpen ==
    /\ hc.pc = "idle"
    /\ hc' = [pc |-> "open", objects |-> {}, contexts |-> << >>, last |-> NoHandleResult]
    /\ UNCHANGED << codec, maxSubmissions, run, pendingResponse, lastExclusiveSession,
                    sessionData, rsps, call, multi, pol, tkt, res, sas, ctx, dup, qn, att, wire, ser, cmp, bpath, props, ln, epr >>

\* CreatePrimary: the TPM loads an object at a free transient handle and the
\* caller gets its context.
HandlesCreatePrimary ==
    /\ hc.pc = "open"
    /\ Len(hc.contexts) < MaxHandleContexts
    /\ \E handle \in TransientHandles \ TPMHandles(hc.objects), name \in PublicNames :
        LET c == [handle |-> handle, name |-> name]
        IN  hc' = [hc EXCEPT !.objects = @ \cup {c}, !.contexts = Append(@, c),
                             !.last = [op |-> "CreatePrimary", recv |-> 0,
                                       handle |-> handle, out |-> c, err |-> ""]]
    /\ UNCHANGED << codec, maxSubmissions, run, pendingResponse, lastExclusiveSession,
                    sessionData, rsps, call, multi, pol, tkt, res, sas, ctx, dup, qn, att, wire, ser, cmp, bpath, props, ln, epr >>

\* TPMContext.FlushContext of the i-th context, a transient object.
HandlesFlushContext ==
    /\ hc.pc = "open"
    /\ \E i \in 1..Len(hc.contexts) :
        LET c == hc.contexts[i]
        IN  /\ c.handle.type = "transient"
            /\ hc' = [hc EXCEPT !.objects = { o \in @ : o.handle # c.handle },
                                !.contexts[i] = invalidate(c),
                                !.last = [op |-> "FlushContext", recv |-> i,
                                          handle |-> c.handle, out |-> NilHandleContext,
                                          err |-> ""]]
    /\ UNCHANGED << codec, maxSubmissions, run, pendingResponse, lastExclusiveSession,
                    sessionData, rsps, call, multi, pol, tkt, res, sas, ctx, dup, qn, att, wire, ser, cmp, bpath, props, ln, epr >>

\* TPMContext.EvictControl(owner, object, persist): a transient object is made
\* persistent at persist and a new context is returned; a persistent object
\* is evicted and nil is returned.  The TPM refuses an occupied persist
\* handle, and a persist handle other than the persistent object's own.
HandlesEvictControl ==
    /\ hc.pc = "open"
    /\ \E i \in 1..Len(hc.contexts), persist \in PersistentHandles :
        LET c == hc.contexts[i]
            made == [handle |-> persist, name |-> c.name]
        IN  /\ c.handle # HandleUnassigned
            /\ IF c.handle.type = "transient"
               THEN IF persist \in TPMHandles(hc.objects)
                    THEN hc' = [hc EXCEPT !.last = [op |-> "EvictControl", recv |-> i,
                                    handle |-> persist, out |-> NilHandleContext,
                                    err |-> "TPM_RC_NV_DEFINED"]]
                    ELSE /\ Len(hc.contexts) < MaxHandleContexts
                         /\ hc' = [hc EXCEPT !.objects = @ \cup {made},
                                    !.contexts = Append(@, made),
                                    !.last = [op |-> "EvictControl", recv |-> i,
                                              handle |-> persist, out |-> made,
                                              err |-> ""]]
               ELSE IF persist # c.handle
                    THEN hc' = [hc EXCEPT !.last = [op |-> "EvictControl", recv |-> i,
                                    handle |-> persist, out |-> NilHandleContext,
                                    err |-> "TPM_RC_RANGE"]]
                    ELSE hc' = [hc EXCEPT !.objects = { o \in @ : o.handle # persist },
                                    !.contexts[i] = invalidate(c),
                                    !.last = [op |-> "EvictControl", recv |-> i,
                                              handle |-> persist,
                                              out |-> NilHandleContext, err |-> ""]]
    /\ UNCHANGED << codec, maxSubmissions, run, pendingResponse, lastExclusiveSession,
                    sessionData, rsps, call, multi, pol, tkt, res, sas, ctx, dup, qn, att, wire, ser, cmp, bpath, props, ln, epr >>

\* TPMContext.GetOrCreateResourceContext(handle); a context made from the TPM
\* is kept by the caller.
HandlesGetOrCreate ==
    /\ hc.pc = "open"
    /\ \E handle \in TransientHandles \cup PersistentHandles :
        LET r == GetOrCreateResourceContext(hc.objects, hc.contexts, handle)
            known == \E i \in 1..Len(hc.contexts) : hc.contexts[i].handle = handle
        IN  /\ (r.err = "" /\ ~known) => Len(hc.contexts) < MaxHandleContexts
            /\ hc' = [hc EXCEPT !.contexts = IF r.err = "" /\ ~known
                                             THEN Append(@, r.out) ELSE @,
                                !.last = [op |-> "GetOrCreateResourceContext",
                                          recv |-> 0, handle |-> handle,
                                          out |-> r.out, err |-> r.err]]
    /\ UNCHANGED << codec, maxSubmissions, run, pendingResponse, lastExclusiveSession,
                    sessionData, rsps, call, multi, pol, tkt, res, sas, ctx, dup, qn, att, wire, ser, cmp, bpath, props, ln, epr >>

HandlesNext ==
    \/ HandlesOpen
    \/ HandlesCreatePrimary
    \/ HandlesFlushContext
    \/ HandlesEvictControl
    \/ HandlesGetOrCreate

SpecHandles == HandlesInit /\ [][HandlesNext]_vars

\* The last call released the resource at hc.last.handle.
Released ==
    /\ hc.pc = "open"
    /\ hc.last.err = ""
    /\ \/ hc.last.op = "FlushContext"
       \/ hc.last.op = "EvictControl" /\ hc.last.out = NilHandleContext

\* C21: once the TPM resource behind a handle context has been released
\* (FlushContext of a transient object, or EvictControl of a persistent
\* object, which returns a nil context), the context's handle is
\* HandleUnassigned, no context of the caller keeps a handle the TPM no
\* longer holds, and creating a context for a handle the TPM does not hold
\* fails with ResourceUnavailableError; EvictControl of a transient object
\* returns a new context with the requested persistent handle and the name
\* of the transient object.
C21_ReleasedHandleUnassigned ==
    hc.pc = "open" =>
        /\ Released =>
            /\ hc.contexts[hc.last.recv].handle = HandleUnassigned
            /\ hc.last.handle \notin TPMHandles(hc.objects)
        /\ \A i \in 1..Len(hc.contexts) :
            hc.contexts[i].handle # HandleUnassigned
                => hc.contexts[i].handle \in TPMHandles(hc.objects)
        /\ (/\ hc.last.op = "GetOrCreateResourceContext"
            /\ hc.last.handle \notin TPMHandles(hc.objects))
            => (hc.last.err = "ResourceUnavailableError" /\ hc.last.out = NilHandleContext)
        /\ (/\ hc.last.op = "EvictControl"
            /\ hc.last.err = ""
            /\ hc.last.out # NilHandleContext)
            => /\ hc.last.out.handle = hc.last.handle
               /\ hc.last.out.handle.type = "persistent"
               /\ hc.last.out.name = hc.contexts[hc.last.recv].name
               /\ hc.contexts[hc.last.recv].handle.type = "transient"
               /\ hc.last.out \in hc.objects

\* A persistent object made by EvictControl was evicted through its context.
C21_Witness ==
    /\ Released
    /\ hc.last.op = "EvictControl"
    /\ hc.last.handle.type = "persistent"
    /\ hc.contexts[hc.last.recv].handle = HandleUnassigned
    /\ hc.contexts[hc.last.recv].name # << >>

\* A transient object was flushed.
C21_WitnessFlushed ==
    /\ Released
    /\ hc.last.op = "FlushContext"
    /\ hc.contexts[hc.last.recv].handle = HandleUnassigned

\* GetOrCreateResourceContext failed for the handle of a flushed object.
C21_WitnessUnavailable ==
    /\ hc.pc = "open"
    /\ hc.last.op = "GetOrCreateResourceContext"
    /\ hc.last.err = "ResourceUnavailableError"
    /\ \E i \in 1..Len(hc.contexts) : hc.contexts[i].handle = HandleUnassigned

\* EvictControl of a transient object returned a persistent context.
C21_WitnessPersisted ==
    /\ hc.pc = "open"
    /\ hc.last.op = "EvictControl"
    /\ hc.last.err = ""
    /\ hc.last.out # NilHandleContext
    /\ hc.last.out.name = hc.contexts[hc.last.recv].name

\* ------------------------------------------------------------------------
\* The wire codec (package mu) on values of each schema shape: fixed-width
\* integers, sized buffers, sized structures and tagged unions
\* ------------------------------------------------------------------------

MaxBufferLen == 2

MaxTrailing == 1

\* Selector values of the union SchemeKeyedHashU: the HMAC arm (a hash
\* algorithm), the XOR arm (a hash algorithm and a KDF), the nil-union, and
\* an algorithm that selects no arm.
KeyedHashSchemeHMAC == 5

KeyedHashSchemeXOR == 10

KeyedHashSchemeNull == 16

AlgorithmAES == 6

WireKinds == {"u8", "u16", "u32", "buffer", "sized", "union"}

\* A value of one of the shapes.  num is the integer of an integer, of the
\* structure behind a sized pointer, or the hash algorithm of a union arm;
\* bytes with bufNil is a slice (of a sized buffer, or of the structure
\* behind a sized pointer); ptrNil is the null sized pointer; sel is the
\* selector of a union and kdf the second field of its XOR arm.
WireValue(kind, num, ptrNil, bufNil, bytes, sel) ==
    [kind |-> kind, num |-> num, ptrNil |-> ptrNil, bufNil |-> bufNil, bytes |-> bytes,
     sel |-> sel, kdf |-> 0]

SchemeXOR(hashAlg, kdf) ==
    [WireValue("union", hashAlg, FALSE, FALSE, << >>, KeyedHashSchemeXOR) EXCEPT
        !.kdf = kdf]

ZeroValue(kind) == WireValue(kind, 0, FALSE, FALSE, << >>, 0)

Slices ==
    { [bufNil |-> TRUE, bytes |-> << >>] }
    \cup { [bufNil |-> FALSE, bytes |-> b] : b \in Bytes(MaxBufferLen) }

WireValues ==
    { WireValue("u8", n, FALSE, FALSE, << >>, 0) : n \in {0, 1, 255} }
    \cup { WireValue("u16", n, FALSE, FALSE, << >>, 0) : n \in {0, 255, 256, 65535} }
    \cup { WireValue("u32", n, FALSE, FALSE, << >>, 0) : n \in {0, 65536, 2147483647} }
    \cup { WireValue("buffer", 0, FALSE, s.bufNil, s.bytes, 0) : s \in Slices }
    \cup { WireValue("sized", 0, TRUE, FALSE, << >>, 0) }
    \cup { WireValue("sized", n, FALSE, s.bufNil, s.bytes, 0) : n \in {0, 258}, s \in Slices }
    \cup { WireValue("union", n, FALSE, FALSE, << >>, KeyedHashSchemeHMAC) :
                n \in {HashAlgorithmSHA1, HashAlgorithmSHA256} }
    \cup { SchemeXOR(n, kdf) : n \in {HashAlgorithmSHA1, HashAlgorithmSHA256},
                               kdf \in {7, 32} }
    \cup { WireValue("union", 0, FALSE, FALSE, << >>, sel) : sel \in {KeyedHashSchemeNull, AlgorithmAES} }

\* A legal value: the selector of a union selects an arm.
Legal(v) == v.kind = "union" => v.sel \in {KeyedHashSchemeHMAC, KeyedHashSchemeXOR, KeyedHashSchemeNull}

\* mu.MarshalToBytes
MarshalValue(v) ==
    IF v.kind = "u8" THEN [b |-> << v.num >>, err |-> ""]
    ELSE IF v.kind = "u16" THEN [b |-> U16(v.num), err |-> ""]
    ELSE IF v.kind = "u32" THEN [b |-> U32(v.num), err |-> ""]
    ELSE IF v.kind = "buffer" THEN [b |-> Sized(v.bytes), err |-> ""]
    ELSE IF v.kind = "sized"
    THEN [b |-> IF v.ptrNil THEN U16(0) ELSE Sized(U16(v.num) \o Sized(v.bytes)),
          err |-> ""]
    ELSE IF v.sel = KeyedHashSchemeHMAC THEN [b |-> U16(v.sel) \o U16(v.num), err |-> ""]
    ELSE IF v.sel = KeyedHashSchemeXOR
    THEN [b |-> U16(v.sel) \o U16(v.num) \o U16(v.kdf), err |-> ""]
    ELSE IF v.sel = KeyedHashSchemeNull THEN [b |-> U16(v.sel), err |-> ""]
    ELSE [b |-> << >>, err |-> "selector out of range"]

WireFail(kind, e) == [val |-> ZeroValue(kind), n |-> 0, err |-> e]

\* The slice that a sized buffer of the given bytes is unmarshalled to.
UnmarshalSlice(bytes, zeroIsNil) == [bufNil |-> bytes = << >> /\ zeroIsNil, bytes |-> bytes]

\* A union read with the HMAC arm where the XOR arm is selected and the
\* other way round.
UnmarshalUnionArmsSwapped(p) ==
    LET sel == ReadU16(p, 1, Len(p))
        hashAlg == ReadU16(p, 3, Len(p))
        kdf == ReadU16(p, 5, Len(p))
    IN  IF ~sel.ok THEN WireFail("union", "short buffer")
        ELSE IF sel.val = KeyedHashSchemeXOR
        THEN IF ~hashAlg.ok THEN WireFail("union", "short buffer")
             ELSE [val |-> WireValue("union", hashAlg.val, FALSE, FALSE, << >>, sel.val),
                   n |-> 4, err |-> ""]
        ELSE IF sel.val = KeyedHashSchemeHMAC
        THEN IF ~hashAlg.ok \/ ~kdf.ok THEN WireFail("union", "short buffer")
             ELSE [val |-> SchemeXOR(hashAlg.val, kdf.val), n |-> 6, err |-> ""]
        ELSE IF sel.val = KeyedHashSchemeNull
        THEN [val |-> WireValue("union", 0, FALSE, FALSE, << >>, sel.val), n |-> 2,
              err |-> ""]
        ELSE WireFail("union", "selector out of range")

\* KeyedHashScheme: a selector and the union SchemeKeyedHashU it selects.
UnmarshalUnion(p) ==
    LET sel == ReadU16(p, 1, Len(p))
        hashAlg == ReadU16(p, 3, Len(p))
        kdf == ReadU16(p, 5, Len(p))
    IN  IF ~sel.ok THEN WireFail("union", "short buffer")
        ELSE IF sel.val = KeyedHashSchemeHMAC
        THEN IF ~hashAlg.ok THEN WireFail("union", "short buffer")
             ELSE [val |-> WireValue("union", hashAlg.val, FALSE, FALSE, << >>, sel.val),
                   n |-> 4, err |-> ""]
        ELSE IF sel.val = KeyedHashSchemeXOR
        THEN IF ~hashAlg.ok \/ ~kdf.ok THEN WireFail("union", "short buffer")
             ELSE [val |-> SchemeXOR(hashAlg.val, kdf.val), n |-> 6, err |-> ""]
        ELSE IF sel.val = KeyedHashSchemeNull
        THEN [val |-> WireValue("union", 0, FALSE, FALSE, << >>, sel.val), n |-> 2,
              err |-> ""]
        ELSE WireFail("union", "selector out of range")

\* A sized structure: the size, then the structure within a window of that
\* many bytes; bytes left in the window are an error.
UnmarshalSized(p, zeroIsNil) ==
    LET window == ReadSized(p, 1, Len(p))
        w == window.val
        num == ReadU16(w, 1, Len(w))
        buf == ReadSized(w, 3, Len(w))
        slice == UnmarshalSlice(buf.val, zeroIsNil)
    IN  IF ~window.ok THEN WireFail("sized", "short buffer")
        ELSE IF w = << >>
        THEN [val |-> WireValue("sized", 0, TRUE, FALSE, << >>, 0), n |-> 2, err |-> ""]
        ELSE IF ~num.ok \/ ~buf.ok THEN WireFail("sized", "short buffer")
        ELSE IF buf.pos <= Len(w) THEN WireFail("sized", "trailing bytes in sized field")
        ELSE [val |-> WireValue("sized", num.val, FALSE, slice.bufNil, slice.bytes, 0),
              n |-> window.pos - 1, err |-> ""]

\* mu.UnmarshalFromBytes into a value of the given kind; n is the number of
\* bytes consumed.  zeroIsNil: a sized buffer of size 0 is unmarshalled to the
\* nil slice (else to a zero-length slice).
UnmarshalValue(kind, p, zeroIsNil) ==
    IF kind = "union" THEN UnmarshalUnion(p)
    ELSE IF kind = "sized" THEN UnmarshalSized(p, zeroIsNil)
    ELSE LET r == IF kind = "u8" THEN ReadU8(p, 1, Len(p))
                  ELSE IF kind = "u16" THEN ReadU16(p, 1, Len(p))
                  ELSE IF kind = "u32" THEN ReadU32(p, 1, Len(p))
                  ELSE ReadSized(p, 1, Len(p))
         IN  IF ~r.ok THEN WireFail(kind, "short buffer")
             ELSE IF kind = "buffer"
             THEN LET slice == UnmarshalSlice(r.val, zeroIsNil)
                  IN  [val |-> WireValue(kind, 0, FALSE, slice.bufNil, slice.bytes, 0),
                       n |-> r.pos - 1, err |-> ""]
             ELSE [val |-> WireValue(kind, r.val, FALSE, FALSE, << >>, 0),
                   n |-> r.pos - 1, err |-> ""]

NoWireResult == [val |-> ZeroValue("u8"), n |-> 0, err |-> ""]

WireInit ==
    /\ codec = NoCodec
    /\ RestInit

\* mu.MarshalToBytes(v)
WireMarshal ==
    /\ wire.pc = "idle"
    /\ \E v \in WireValues, zeroIsNil \in BOOLEAN :
        LET m == MarshalValue(v)
        IN  wire' = [pc |-> "marshalled", v |-> v, zeroIsNil |-> zeroIsNil, b |-> m.b,
                     err |-> m.err, p |-> << >>, back |-> NoWireResult]
    /\ UNCHANGED << codec, maxSubmissions, run, pendingResponse, lastExclusiveSession,
                    sessionData, rsps, call, multi, pol, tkt, res, sas, ctx, dup, qn, att,
                    hc, ser, cmp, bpath, props, ln, epr >>

\* mu.UnmarshalFromBytes of the marshalled bytes, cut short or followed by
\* other bytes.
WireUnmarshal ==
    /\ wire.pc = "marshalled"
    /\ wire.err = ""
    /\ \E cut \in 0..MaxTrailing, more \in 0..MaxTrailing :
        LET p == Slice(wire.b, 1, Len(wire.b) - cut) \o Fill(more)
        IN  /\ cut <= Len(wire.b)
            /\ wire' = [wire EXCEPT !.pc = "unmarshalled", !.p = p,
                                    !.back = UnmarshalValue(wire.v.kind, p,
                                                            wire.zeroIsNil)]
    /\ UNCHANGED << codec, maxSubmissions, run, pendingResponse, lastExclusiveSession,
                    sessionData, rsps, call, multi, pol, tkt, res, sas, ctx, dup, qn, att,
                    hc, ser, cmp, bpath, props, ln, epr >>

WireNext == WireMarshal \/ WireUnmarshal

SpecWire == WireInit /\ [][WireNext]_vars

\* The marshalled bytes of a legal value were unmarshalled, alone or followed
\* by other bytes.
RoundTripped ==
    /\ wire.pc = "unmarshalled"
    /\ Legal(wire.v)
    /\ Len(wire.p) >= Len(wire.b)
    /\ Slice(wire.p, 1, Len(wire.b)) = wire.b

\* The value with a nil slice taken for a zero-length one.
Canonical(v) == [v EXCEPT !.bufNil = FALSE]

\* C29 as stated: unmarshal(marshal(v)) equals v, nil and zero-length slices
\* told apart, for every legal value v.
C29_RoundTripIdentity ==
    RoundTripped => (wire.back.err = "" /\ wire.back.val = wire.v)

\* C29: marshal of a legal value never fails, and unmarshal(marshal(v))
\* consumes exactly the bytes that marshal produced and equals v, where a nil
\* slice and a zero-length slice (both encoded as 0x0000) count as equal.
C29_RoundTripCanonical ==
    /\ (wire.pc # "idle" /\ Legal(wire.v)) => wire.err = ""
    /\ RoundTripped =>
        /\ wire.back.err = ""
        /\ wire.back.n = Len(wire.b)
        /\ Canonical(wire.back.val) = Canonical(wire.v)

\* A sized structure holding a non-empty buffer went through the codec and
\* was followed by another byte.
C29_Witness ==
    /\ RoundTripped
    /\ wire.v.kind = "sized"
    /\ Len(wire.v.bytes) = MaxBufferLen
    /\ Len(wire.p) > Len(wire.b)
    /\ wire.back.val = wire.v

\* A union with its XOR arm went through the codec.
C29_WitnessUnion ==
    /\ RoundTripped
    /\ wire.v.kind = "union"
    /\ wire.v.sel = KeyedHashSchemeXOR
    /\ wire.back.val = wire.v

\* A nil slice and a zero-length slice both went through the codec as 0x0000.
C29_WitnessNilSlice ==
    /\ RoundTripped
    /\ wire.v.kind = "buffer"
    /\ wire.v.bufNil
    /\ wire.b = << 0, 0 >>
    /\ wire.back.err = ""

C29_WitnessZeroLengthSlice ==
    /\ RoundTripped
    /\ wire.v.kind = "buffer"
    /\ ~wire.v.bufNil
    /\ wire.b = << 0, 0 >>
    /\ wire.back.err = ""

\* ------------------------------------------------------------------------
\* Serialization of handle contexts: HandleContext.SerializeToBytes and
\* CreateHandleContextFromBytes (resources_test.go:131-198)
\* ------------------------------------------------------------------------

MaxNonceLen == 2

\* 'TPM2'
ContextMagic == << 84, 80, 77, 50 >>

ContextVersion == 1

\* Handle types: the most significant byte of a handle.
HandleTypeNVIndex == 1

HandleTypeHMACSession == 2

HandleTypePolicySession == 3

HandleTypeTransient == 128

HandleTypePersistent == 129

HandleType(handle) == handle[1]

VariantOf(handleType) ==
    IF handleType \in {HandleTypeTransient, HandleTypePersistent} THEN "object"
    ELSE IF handleType = HandleTypeNVIndex THEN "nv"
    ELSE IF handleType \in {HandleTypeHMACSession, HandleTypePolicySession} THEN "session"
    ELSE "none"

\* The payloads of the variants and their wire forms: the public area of an
\* object (type, name algorithm, unique), the public area of an NV index
\* (index, name algorithm, attributes, size) and the data of a session (hash
\* algorithm, session type, bound flag, nonces).  Slices are byte strings: a
\* nil and a zero-length slice are one value here.
MarshalPayload(variant, d) ==
    IF variant = "object" THEN U16(d.type) \o U16(d.nameAlg) \o Sized(d.unique)
    ELSE IF variant = "nv"
    THEN d.index \o U16(d.nameAlg) \o U32(d.attrs) \o U16(d.size)
    ELSE U16(d.hashAlg) \o << d.sessionType >> \o << IF d.isBound THEN 1 ELSE 0 >>
         \o Sized(d.nonceCaller) \o Sized(d.nonceTPM)

\* The NV public area read with the size before the attributes.
UnmarshalNVPublicSizeFirst(p, pos) ==
    LET index == ReadBytes(p, pos, Len(p), HandleSize)
        nameAlg == ReadU16(p, index.pos, Len(p))
        size == ReadU16(p, nameAlg.pos, Len(p))
        attrs == ReadU32(p, size.pos, Len(p))
    IN  IF ~index.ok \/ ~nameAlg.ok \/ ~attrs.ok \/ ~size.ok THEN ReadFail
        ELSE [ok |-> TRUE,
              val |-> [index |-> index.val, nameAlg |-> nameAlg.val, attrs |-> attrs.val,
                       size |-> size.val],
              pos |-> attrs.pos]

UnmarshalNVPublic(p, pos) ==
    LET index == ReadBytes(p, pos, Len(p), HandleSize)
        nameAlg == ReadU16(p, index.pos, Len(p))
        attrs == ReadU32(p, nameAlg.pos, Len(p))
        size == ReadU16(p, attrs.pos, Len(p))
    IN  IF ~index.ok \/ ~nameAlg.ok \/ ~attrs.ok \/ ~size.ok THEN ReadFail
        ELSE [ok |-> TRUE,
              val |-> [index |-> index.val, nameAlg |-> nameAlg.val, attrs |-> attrs.val,
                       size |-> size.val],
              pos |-> size.pos]

UnmarshalPublic(p, pos) ==
    LET type == ReadU16(p, pos, Len(p))
        nameAlg == ReadU16(p, type.pos, Len(p))
        unique == ReadSized(p, nameAlg.pos, Len(p))
    IN  IF ~type.ok \/ ~nameAlg.ok \/ ~unique.ok THEN ReadFail
        ELSE [ok |-> TRUE,
              val |-> [type |-> type.val, nameAlg |-> nameAlg.val, unique |-> unique.val],
              pos |-> unique.pos]

UnmarshalSessionPayload(p, pos) ==
    LET hashAlg == ReadU16(p, pos, Len(p))
        sessionType == ReadU8(p, hashAlg.pos, Len(p))
        isBound == ReadU8(p, sessionType.pos, Len(p))
        nonceCaller == ReadSized(p, isBound.pos, Len(p))
        nonceTPM == ReadSized(p, nonceCaller.pos, Len(p))
    IN  IF ~hashAlg.ok \/ ~sessionType.ok \/ ~isBound.ok \/ ~nonceCaller.ok \/ ~nonceTPM.ok
        THEN ReadFail
        ELSE [ok |-> TRUE,
              val |-> [hashAlg |-> hashAlg.val, sessionType |-> sessionType.val,
                       isBound |-> isBound.val # 0, nonceCaller |-> nonceCaller.val,
                       nonceTPM |-> nonceTPM.val],
              pos |-> nonceTPM.pos]

UnmarshalPayloadOf(variant, p, pos) ==
    IF variant = "object" THEN UnmarshalPublic(p, pos)
    ELSE IF variant = "nv" THEN UnmarshalNVPublic(p, pos)
    ELSE UnmarshalSessionPayload(p, pos)

\* HandleContext.SerializeToBytes: magic, version, handle type, handle, name
\* and the payload of the variant.
SerializeToBytes(c) ==
    ContextMagic \o U16(ContextVersion) \o << HandleType(c.handle) >> \o c.handle
    \o Sized(c.name) \o MarshalPayload(c.variant, c.data)

NilSerializedContext == [variant |-> "none", handle |-> << >>, name |-> << >>, data |-> << >>]

ContextError(e) == [context |-> NilSerializedContext, n |-> 0, err |-> e]

\* CreateHandleContextFromBytes: the context and the number of bytes consumed.
CreateHandleContextFromBytes(b) ==
    LET magic == ReadBytes(b, 1, Len(b), 4)
        version == ReadU16(b, magic.pos, Len(b))
        handleType == ReadU8(b, version.pos, Len(b))
        handle == ReadBytes(b, handleType.pos, Len(b), HandleSize)
        name == ReadSized(b, handle.pos, Len(b))
        variant == VariantOf(handleType.val)
        data == UnmarshalPayloadOf(variant, b, name.pos)
    IN  IF ~magic.ok \/ ~version.ok \/ ~handleType.ok
        THEN ContextError("cannot unpack context blob")
        ELSE IF magic.val # ContextMagic THEN ContextError("invalid context blob magic")
        ELSE IF version.val # ContextVersion THEN ContextError("unsupported context version")
        ELSE IF variant = "none" THEN ContextError("unexpected handle type")
        ELSE IF ~handle.ok \/ ~name.ok \/ ~data.ok
        THEN ContextError("cannot unmarshal context data")
        ELSE IF HandleType(handle.val) # handleType.val
        THEN ContextError("inconsistent handle type")
        ELSE [context |-> [variant |-> variant, handle |-> handle.val, name |-> name.val,
                           data |-> data.val],
              n |-> data.pos - 1, err |-> ""]

Nonces == { b \in Bytes(MaxNonceLen) : Len(b) \in {0, MaxNonceLen} }

ObjectContexts ==
    { [variant |-> "object", handle |-> h, name |-> U16(HashAlgorithmSHA256) \o u,
       data |-> [type |-> t, nameAlg |-> HashAlgorithmSHA256, unique |-> u]] :
        h \in { << HandleTypeTransient, 0, 0, 1 >>, << HandleTypePersistent, 0, 0, 8 >> },
        t \in {1, 8}, u \in Bytes(1) \ {<< >>} }

NvIndexContexts ==
    { [variant |-> "nv", handle |-> h, name |-> U16(HashAlgorithmSHA256) \o << s >>,
       data |-> [index |-> h, nameAlg |-> HashAlgorithmSHA256, attrs |-> a, size |-> s]] :
        h \in { << HandleTypeNVIndex, 129, 0, 255 >> }, a \in {393220, 537264132},
        s \in {8, 300} }

SessionContexts ==
    { [variant |-> "session", handle |-> h, name |-> h,
       data |-> [hashAlg |-> alg, sessionType |-> IF HandleType(h) = HandleTypeHMACSession
                                                   THEN 0 ELSE 1,
                 isBound |-> bound, nonceCaller |-> nc, nonceTPM |-> nt]] :
        h \in { << HandleTypeHMACSession, 0, 0, 0 >>, << HandleTypePolicySession, 0, 0, 1 >> },
        alg \in {HashAlgorithmSHA1, HashAlgorithmSHA256}, bound \in BOOLEAN,
        nc \in Nonces, nt \in Nonces }

SerializableContexts == ObjectContexts \cup NvIndexContexts \cup SessionContexts

\* What may have happened to the bytes between the two calls.
Damages == {"none", "more", "short", "magic", "version", "type"}

Damaged(b, damage) ==
    IF damage = "more" THEN b \o Fill(1)
    ELSE IF damage = "short" THEN Slice(b, 1, Len(b) - 1)
    ELSE IF damage = "magic" THEN [b EXCEPT ![4] = 49]
    ELSE IF damage = "version" THEN [b EXCEPT ![6] = ContextVersion + 1]
    ELSE IF damage = "type" THEN [b EXCEPT ![7] = 64]
    ELSE b

SerializedInit ==
    /\ codec = NoCodec
    /\ RestInit

SerializedSerialize ==
    /\ ser.pc = "idle"
    /\ \E c \in SerializableContexts :
        ser' = [pc |-> "serialized", c |-> c, b |-> SerializeToBytes(c), damage |-> "none",
                back |-> ContextError("")]
    /\ UNCHANGED << codec, maxSubmissions, run, pendingResponse, lastExclusiveSession,
                    sessionData, rsps, call, multi, pol, tkt, res, sas, ctx, dup, qn, att,
                    hc, wire, cmp, bpath, props, ln, epr >>

SerializedCreate ==
    /\ ser.pc = "serialized"
    /\ \E damage \in Damages :
        ser' = [ser EXCEPT !.pc = "created", !.damage = damage,
                           !.back = CreateHandleContextFromBytes(Damaged(ser.b, damage))]
    /\ UNCHANGED << codec, maxSubmissions, run, pendingResponse, lastExclusiveSession,
                    sessionData, rsps, call, multi, pol, tkt, res, sas, ctx, dup, qn, att,
                    hc, wire, cmp, bpath, props, ln, epr >>

SerializedNext == SerializedSerialize \/ SerializedCreate

SpecSerialized == SerializedInit /\ [][SerializedNext]_vars

\* C22: for every object, NV index and session handle context c,
\* CreateHandleContextFromBytes(c.SerializeToBytes()) succeeds, consumes all
\* the bytes and yields a context of the same variant with equal handle,
\* name and payload (public area, NV public area, or session data).
C22_SerializeRoundTrip ==
    (ser.pc = "created" /\ ser.damage \in {"none", "more"}) =>
        /\ ser.back.err = ""
        /\ ser.back.n = Len(ser.b)
        /\ ser.back.context.variant = ser.c.variant
        /\ ser.back.context.handle = ser.c.handle
        /\ ser.back.context.name = ser.c.name
        /\ ser.back.context.data = ser.c.data

\* A session context with nonces went through its serialized form.
C22_Witness ==
    /\ ser.pc = "created"
    /\ ser.damage = "none"
    /\ ser.c.variant = "session"
    /\ Len(ser.c.data.nonceTPM) = MaxNonceLen
    /\ ser.back.n = Len(ser.b)
    /\ ser.back.context = ser.c

\* A persistent object context and an NV index context did.
C22_WitnessObject ==
    /\ ser.pc = "created"
    /\ ser.damage = "none"
    /\ ser.c.variant = "object"
    /\ HandleType(ser.c.handle) = HandleTypePersistent
    /\ ser.back.context = ser.c

C22_WitnessNV ==
    /\ ser.pc = "created"
    /\ ser.damage = "none"
    /\ ser.c.variant = "nv"
    /\ ser.c.data.size = 300
    /\ ser.back.context = ser.c

\* A blob of another version was refused.
C22_WitnessVersion ==
    /\ ser.pc = "created"
    /\ ser.damage = "version"
    /\ ser.back.err = "unsupported context version"

\* ------------------------------------------------------------------------
\* Policy.ComputeFor and Policy.Validate on a policy that keeps the digests
\* computed for it (policy_test.go:809-899, 1255-1324)
\* ------------------------------------------------------------------------

MaxComputeCalls == 3

\* The digests of the branches of every node among the elements, for a walk
\* that enters the elements with digest d.
RECURSIVE TreeDigests(_, _)
TreeDigests(elements, d) ==
    IF elements = << >> THEN << >>
    ELSE LET e == Head(elements)
             rest == TreeDigests(Tail(elements), computeElements(<< e >>, d))
         IN  IF e.kind = "OR" THEN << BranchDigests(e, d) >> \o rest ELSE rest

\* The entry the policy keeps for an algorithm: the digest of the policy and
\* the digests of its branches.
TaggedDigests(policy, alg) ==
    [alg |-> alg, digest |-> ComputeFor(policy, alg),
     branches |-> TreeDigests(policy, Zero(alg))]

HasTagged(tagged, alg) == \E i \in DOMAIN tagged : tagged[i].alg = alg

Tagged(tagged, alg) == tagged[CHOOSE i \in DOMAIN tagged : tagged[i].alg = alg]

\* The entry for alg replaced, or added after the others.
WithTagged(tagged, entry) ==
    IF HasTagged(tagged, entry.alg)
    THEN [i \in DOMAIN tagged |-> IF tagged[i].alg = entry.alg THEN entry ELSE tagged[i]]
    ELSE Append(tagged, entry)

\* ComputeFor that goes on from the digest kept for alg when there is one.
PolicyComputeForFromStored(policy, tagged, alg) ==
    LET start == IF HasTagged(tagged, alg) THEN Tagged(tagged, alg).digest ELSE Zero(alg)
        entry == [alg |-> alg, digest |-> computeElements(policy, start),
                  branches |-> TreeDigests(policy, start)]
    IN  [digest |-> entry.digest, tagged |-> WithTagged(tagged, entry), err |-> ""]

\* Policy.ComputeFor(alg) on a policy with the entries tagged: the digest is
\* computed from the elements and kept, with the branch digests, for alg.
PolicyComputeFor(policy, tagged, alg) ==
    LET entry == TaggedDigests(policy, alg)
    IN  [digest |-> entry.digest, tagged |-> WithTagged(tagged, entry), err |-> ""]

\* Validate that returns the first digest kept on the policy.
PolicyValidateFirstStored(policy, tagged, alg) ==
    IF tagged # << >> THEN [digest |-> tagged[1].digest, tagged |-> tagged, err |-> ""]
    ELSE [digest |-> ComputeFor(policy, alg), tagged |-> tagged, err |-> ""]

\* Policy.Validate(alg): the digest recomputed from the elements; branch
\* digests kept for alg that differ from the recomputed ones are an error.
PolicyValidate(policy, tagged, alg) ==
    IF /\ HasTagged(tagged, alg)
       /\ Tagged(tagged, alg).branches # TreeDigests(policy, Zero(alg))
    THEN [digest |-> Zero(alg), tagged |-> tagged,
          err |-> "stored and computed branch digest mismatch"]
    ELSE [digest |-> ComputeFor(policy, alg), tagged |-> tagged, err |-> ""]

\* Policies without a branch node and with unnamed branches.
PlainPolicies == { << AuthValue >>, << NvWritten, Secret, CommandCode(NVChangeAuth) >> }

UnnamedBranchPolicies ==
    { << NvWritten,
         BranchNode(<< Branch(<< >>, << AuthValue >>), Branch(<< >>, << Secret >>) >>),
         t >> : t \in TailElements }

ComputePolicies == Policies \cup PlainPolicies \cup UnnamedBranchPolicies

NoDigests == [a \in HashAlgorithms |-> Zero("")]

ComputedInit ==
    /\ codec = NoCodec
    /\ RestInit

\* PolicyBuilder.Policy(): a policy with no digest kept on it.
ComputedBuild ==
    /\ cmp.pc = "idle"
    /\ \E policy \in ComputePolicies :
        cmp' = [pc |-> "built", policy |-> policy, tagged |-> << >>, calls |-> 0,
                op |-> "", alg |-> "", digest |-> Zero(""), err |-> "",
                expected |-> Zero(""), first |-> NoDigests]
    /\ UNCHANGED << codec, maxSubmissions, run, pendingResponse, lastExclusiveSession,
                    sessionData, rsps, call, multi, pol, tkt, res, sas, ctx, dup, qn, att,
                    hc, wire, ser, bpath, props, ln, epr >>

\* policy.ComputeFor(alg)
ComputedComputeFor ==
    /\ cmp.pc = "built"
    /\ cmp.calls < MaxComputeCalls
    /\ \E alg \in HashAlgorithms :
        LET r == PolicyComputeFor(cmp.policy, cmp.tagged, alg)
        IN  cmp' = [cmp EXCEPT !.tagged = r.tagged, !.calls = @ + 1, !.op = "ComputeFor",
                               !.alg = alg, !.digest = r.digest, !.err = r.err,
                               !.expected = r.digest,
                               !.first[alg] = IF @ = Zero("") THEN r.digest ELSE @]
    /\ UNCHANGED << codec, maxSubmissions, run, pendingResponse, lastExclusiveSession,
                    sessionData, rsps, call, multi, pol, tkt, res, sas, ctx, dup, qn, att,
                    hc, wire, ser, bpath, props, ln, epr >>

\* policy.Validate(alg), and policy.ComputeFor(alg) before or after it to
\* compare with.
ComputedValidate ==
    /\ cmp.pc = "built"
    /\ cmp.calls < MaxComputeCalls
    /\ \E alg \in HashAlgorithms, computeFirst \in BOOLEAN :
        LET c1 == PolicyComputeFor(cmp.policy, cmp.tagged, alg)
            v == PolicyValidate(cmp.policy, IF computeFirst THEN c1.tagged ELSE cmp.tagged,
                                alg)
            c == IF computeFirst THEN c1 ELSE PolicyComputeFor(cmp.policy, v.tagged, alg)
        IN  cmp' = [cmp EXCEPT !.tagged = c.tagged, !.calls = @ + 1, !.op = "Validate",
                               !.alg = alg, !.digest = v.digest, !.err = v.err,
                               !.expected = c.digest,
                               !.first[alg] = IF @ = Zero("") THEN c.digest ELSE @]
    /\ UNCHANGED << codec, maxSubmissions, run, pendingResponse, lastExclusiveSession,
                    sessionData, rsps, call, multi, pol, tkt, res, sas, ctx, dup, qn, att,
                    hc, wire, ser, bpath, props, ln, epr >>

ComputedNext == ComputedBuild \/ ComputedComputeFor \/ ComputedValidate

SpecComputed == ComputedInit /\ [][ComputedNext]_vars

C23_WitnessUnnamed ==
    /\ cmp.pc = "built"
    /\ cmp.op = "Validate"
    /\ cmp.policy \in UnnamedBranchPolicies \cup PlainPolicies
    /\ cmp.digest = cmp.expected

MaxPathLen == 6

PathChars == { "/", "a", "b" }

PoppedPaths == UNION { [1..n -> PathChars] : n \in 0..MaxPathLen }

\* The non-empty components of a path, read character by character.
RECURSIVE SplitPath(_, _, _)
SplitPath(path, cur, acc) ==
    LET closed == IF cur = << >> THEN acc ELSE Append(acc, cur)
    IN  IF path = << >> THEN closed
        ELSE IF Head(path) = "/" THEN SplitPath(Tail(path), << >>, closed)
        ELSE SplitPath(Tail(path), Append(cur, Head(path)), acc)

NonEmptyComponents(path) == SplitPath(path, << >>, << >>)

Separators(n) == [i \in 1..n |-> "/"]

PathInit == codec = NoCodec /\ RestInit

PathStart ==
    /\ bpath.pc = "idle"
    /\ \E path \in PoppedPaths :
        bpath' = [pc |-> "popping", path |-> path, from |-> path, next |-> << >>,
                  remaining |-> path, components |-> << >>, pops |-> 0]
    /\ UNCHANGED << codec, maxSubmissions, run, pendingResponse, lastExclusiveSession,
                    sessionData, rsps, call, multi, pol, tkt, res, sas, ctx, dup, qn, att,
                    hc, wire, ser, cmp, props, ln, epr >>

\* One call on what the previous call left; an empty component ends the walk.
PathPop ==
    /\ bpath.pc = "popping"
    /\ LET pop == PopNextComponent(bpath.remaining)
       IN  bpath' = [bpath EXCEPT
                        !.pc = IF pop.next = << >> THEN "done" ELSE "popping",
                        !.from = bpath.remaining,
                        !.next = pop.next,
                        !.remaining = pop.remaining,
                        !.components = IF pop.next = << >> THEN @ ELSE Append(@, pop.next),
                        !.pops = @ + 1]
    /\ UNCHANGED << codec, maxSubmissions, run, pendingResponse, lastExclusiveSession,
                    sessionData, rsps, call, multi, pol, tkt, res, sas, ctx, dup, qn, att,
                    hc, wire, ser, cmp, props, ln, epr >>

PathNext == PathStart \/ PathPop

SpecPath == PathInit /\ [][PathNext]_vars

\* The call that produced bpath.next and bpath.remaining from bpath.from
\* skipped k separators and dropped at most the one separator after the
\* component.
PoppedFrom(k) ==
    \/ /\ bpath.from = Separators(k) \o bpath.next
       /\ bpath.remaining = << >>
    \/ bpath.from = Separators(k) \o bpath.next \o << "/" >> \o bpath.remaining

\* C31: a pop skips all leading separators, returns the text up to the next
\* separator as the component and everything after that one separator as
\* the remainder; the component never contains a separator; popping until
\* the component is empty ends within as many calls as the path has
\* characters plus one and yields exactly the non-empty components of the
\* path, in order.
C31_PopNextComponent ==
    bpath.pc \in { "popping", "done" } /\ bpath.pops > 0 =>
        /\ \A i \in 1..Len(bpath.next) : bpath.next[i] # "/"
        /\ \E k \in 0..Len(bpath.from) : PoppedFrom(k)
        /\ bpath.next = << >> => bpath.remaining = << >>
        /\ bpath.next # << >> => Len(bpath.remaining) < Len(bpath.from)
        /\ bpath.pops <= Len(bpath.path) + 1
        /\ bpath.components \o NonEmptyComponents(bpath.remaining)
               = NonEmptyComponents(bpath.path)
        /\ bpath.pc = "done" => bpath.components = NonEmptyComponents(bpath.path)

\* "a////b" gives "a" and "///b", and the next call gives "b" and "".
C31_Witness ==
    /\ bpath.pc = "popping" /\ bpath.pops = 1
    /\ bpath.path = << "a", "/", "/", "/", "/", "b" >>
    /\ bpath.next = << "a" >>
    /\ bpath.remaining = << "/", "/", "/", "b" >>

C31_WitnessWalked ==
    /\ bpath.pc = "done"
    /\ bpath.path = << "/", "a", "/", "/", "b", "/" >>
    /\ bpath.components = << << "a" >>, << "b" >> >>
    /\ bpath.pops = 3

C31_WitnessEmpty ==
    /\ bpath.pc = "done" /\ bpath.path = << >> /\ bpath.pops = 1
    /\ bpath.next = << >> /\ bpath.remaining = << >>

\* ------------------------------------------------------------------------
\* Response contexts after they stop being pending, and RunCommand failing
\* before or at the dispatch (tpm.go:154-254)
\* ------------------------------------------------------------------------

ExecStateVars == << pendingResponse, lastExclusiveSession, sessionData, rsps >>

\* Every response context is the pending one or was processed once, and a
\* response processed by RunCommand keeps the error found then.
ProcessedOnce ==
    /\ \A r \in 1..Len(rsps) :
        IF r = pendingResponse THEN rsps[r].processed = 0 ELSE rsps[r].processed = 1
    /\ call.op = "RunCommand" /\ call.processedRsp # 0
           => rsps[call.processedRsp].Err = call.flushErr

\* CompleteResponse on a response that is not pending changes no session
\* state and returns the recorded error.
CompleteAfterProcessed ==
    call'.op = "CompleteResponse" /\ call'.r # pendingResponse
        => /\ UNCHANGED ExecStateVars
           /\ call'.processedRsp = 0
           /\ rsps[call'.r].Err # "" => call'.err = rsps[call'.r].Err

\* C32: every response context returned by RunCommand is the pending one or
\* has had its auth area processed exactly once; once it is no longer
\* pending, CompleteResponse does not process session state for it again and
\* returns the error recorded when it was processed, so an auth failure
\* found while a later command flushed it is reported by its
\* CompleteResponse.
C32_ProcessedOnceErrorKept == []ProcessedOnce /\ [][CompleteAfterProcessed]_vars

\* A response failed its auth check while the next command flushed it, and
\* its CompleteResponse then returned that error.
C32_Witness ==
    /\ call.op = "CompleteResponse"
    /\ call.wasPending # call.r
    /\ call.processedRsp = 0
    /\ rsps[call.r].processed = 1
    /\ rsps[call.r].Err = "InvalidResponseError"
    /\ call.err = "InvalidResponseError"

C32_WitnessFlushFailed ==
    /\ call.op = "RunCommand"
    /\ call.processedRsp # 0
    /\ call.flushErr = "InvalidResponseError"
    /\ call.err = ""
    /\ pendingResponse = call.r

PreDispatchErrors == { PreDispatchSteps[i].err : i \in 1..Len(PreDispatchSteps) }

\* A RunCommand that failed before the dispatch left the dispatcher as it was.
RejectedChangesNothing ==
    call'.op = "RunCommand" /\ call'.err \in PreDispatchErrors
        => /\ UNCHANGED ExecStateVars
           /\ StepIndex(call'.steps, "dispatcher.RunCommand") = 0
           /\ StepIndex(call'.steps, "processResponseAuth") = 0
           /\ call'.r = 0

DispatchFailed ==
    call.op = "RunCommand" /\ call.err = "dispatcher error"
        => /\ call.r = 0
           /\ pendingResponse = 0
           /\ call.wasPending # 0
                  => /\ call.processedRsp = call.wasPending
                     /\ rsps[call.wasPending].processed = 1

\* C33: a RunCommand that fails before the dispatch writes nothing to the
\* transport and leaves pendingResponse and lastExclusiveSession unchanged;
\* when the dispatch itself fails the previously pending response has been
\* processed, no response is pending afterwards and no response context is
\* returned.
C33_FailedRunCommandFrame == []DispatchFailed /\ [][RejectedChangesNothing]_vars

C33_Witness ==
    /\ call.op = "RunCommand" /\ call.err = "dispatcher error"
    /\ call.wasPending # 0
    /\ rsps[call.wasPending].processed = 1
    /\ pendingResponse = 0

C33_WitnessRejected ==
    /\ call.op = "RunCommand" /\ call.err = "cannot build auth area"
    /\ call.wasPending # 0
    /\ pendingResponse = call.wasPending
    /\ lastExclusiveSession # 0
    /\ lastExclusiveSession = call.prevExclusive

\* ------------------------------------------------------------------------
\* TPMContext.InitProperties and initPropertiesIfNeeded (tpm.go:444-496)
\* ------------------------------------------------------------------------

MaxPropertyCalls == 3

MaxUint16 == 65535

MaxUint8 == 255

DefaultMaxBufferSize == 1024

\* The properties InitProperties looks at, in the order a TPM lists them.
PropertyOrder ==
    << "PropertyInputBuffer", "PropertyPCRSelectMin", "PropertyMaxDigest",
       "PropertyNVBufferMax" >>

Absent == -1

\* The uint32 values a response may carry for a property: zero, the largest
\* value that fits the field, and the first that does not.
PropertyValues(property) ==
    IF property = "PropertyPCRSelectMin" THEN { 0, MaxUint8, MaxUint8 + 1 }
    ELSE { 0, MaxUint16, MaxUint16 + 1 }

\* A response of GetCapabilityTPMProperties: the value of each property, or
\* Absent when the TPM does not list it.
PropertyResponses ==
    { f \in [DOMAIN PropertyOrder ->
                 { Absent } \cup UNION { PropertyValues(PropertyOrder[i]) :
                                            i \in DOMAIN PropertyOrder }] :
          \A i \in DOMAIN PropertyOrder :
              f[i] \in PropertyValues(PropertyOrder[i]) \cup { Absent } }

PropertyLimit(property) ==
    IF property = "PropertyPCRSelectMin" THEN MaxUint8 ELSE MaxUint16

\* The field a property is stored in.
PropertyField(property) ==
    CASE property = "PropertyInputBuffer" -> "maxBufferSize"
      [] property = "PropertyPCRSelectMin" -> "minPcrSelectSize"
      [] property = "PropertyMaxDigest" -> "maxDigestSize"
      [] property = "PropertyNVBufferMax" -> "maxNVBufferSize"

\* tpm.go:453-455, 468-470 left out: the value is converted without a check.
OutOfRangeNever(property, value) == FALSE

\* tpm.go:453, 468: the value does not fit the field.
OutOfRange(property, value) == value > PropertyLimit(property)

\* tpm.go:450-473: the properties of the response in turn; a value out of
\* range ends the call, the fields set before it stay set.
RECURSIVE StoreProperties(_, _, _)
StoreProperties(t, response, i) ==
    IF i > Len(PropertyOrder) THEN [t |-> t, err |-> ""]
    ELSE IF response[i] = Absent THEN StoreProperties(t, response, i + 1)
    ELSE IF OutOfRange(PropertyOrder[i], response[i])
    THEN [t |-> t, err |-> "InvalidResponseError"]
    ELSE StoreProperties(
             [t EXCEPT ![PropertyField(PropertyOrder[i])] =
                            response[i] % (PropertyLimit(PropertyOrder[i]) + 1)],
             response, i + 1)

\* TPMContext.InitProperties (tpm.go:444-489) with the outcome of its
\* GetCapability command: an error, or a response.
InitProperties(t, capabilityOk, response) ==
    IF ~capabilityOk THEN [t |-> t, err |-> "GetCapability error"]
    ELSE LET stored == StoreProperties(t, response, 1)
             t1 == IF stored.t.maxBufferSize = 0
                   THEN [stored.t EXCEPT !.maxBufferSize = DefaultMaxBufferSize]
                   ELSE stored.t
         IN  IF stored.err # "" THEN stored
             ELSE IF t1.maxDigestSize = 0 \/ t1.maxNVBufferSize = 0 \/ t1.minPcrSelectSize = 0
             THEN [t |-> t1, err |-> "InvalidResponseError"]
             ELSE [t |-> [t1 EXCEPT !.propertiesInitialized = TRUE], err |-> ""]

\* Some property of the response is too large for its field.
HasOutOfRange(response) ==
    \E i \in DOMAIN PropertyOrder :
        response[i] # Absent /\ response[i] > PropertyLimit(PropertyOrder[i])

PropertyFields(t) ==
    [propertiesInitialized |-> t.propertiesInitialized, maxBufferSize |-> t.maxBufferSize,
     minPcrSelectSize |-> t.minPcrSelectSize, maxDigestSize |-> t.maxDigestSize,
     maxNVBufferSize |-> t.maxNVBufferSize]

PropertiesInit == codec = NoCodec /\ RestInit

\* newTpmContext (tpm.go:498-504): the fields start at their zero values.
PropertiesNew ==
    /\ props.pc = "idle"
    /\ props' = [pc |-> "ready", propertiesInitialized |-> FALSE, maxBufferSize |-> 0,
                 minPcrSelectSize |-> 0, maxDigestSize |-> 0, maxNVBufferSize |-> 0,
                 calls |-> 0, op |-> "newTpmContext", err |-> "", commands |-> 0,
                 wasInitialized |-> FALSE, outOfRange |-> FALSE]
    /\ UNCHANGED << codec, maxSubmissions, run, pendingResponse, lastExclusiveSession,
                    sessionData, rsps, call, multi, pol, tkt, res, sas, ctx, dup, qn, att,
                    hc, wire, ser, cmp, bpath, ln, epr >>

PropertiesCall(op, commands, result, outOfRange) ==
    props' = PropertyFields(result.t) @@
              [pc |-> "ready", calls |-> props.calls + 1, op |-> op, err |-> result.err,
               commands |-> commands, wasInitialized |-> props.propertiesInitialized,
               outOfRange |-> outOfRange]

PropertiesInitProperties ==
    /\ props.pc = "ready"
    /\ props.calls < MaxPropertyCalls
    /\ \E capabilityOk \in BOOLEAN, response \in PropertyResponses :
        PropertiesCall("InitProperties", 1, InitProperties(props, capabilityOk, response),
                       capabilityOk /\ HasOutOfRange(response))
    /\ UNCHANGED << codec, maxSubmissions, run, pendingResponse, lastExclusiveSession,
                    sessionData, rsps, call, multi, pol, tkt, res, sas, ctx, dup, qn, att,
                    hc, wire, ser, cmp, bpath, ln, epr >>

\* initPropertiesIfNeeded (tpm.go:491-496)
PropertiesInitIfNeeded ==
    /\ props.pc = "ready"
    /\ props.calls < MaxPropertyCalls
    /\ IF props.propertiesInitialized
       THEN PropertiesCall("initPropertiesIfNeeded", 0, [t |-> props, err |-> ""], FALSE)
       ELSE \E capabilityOk \in BOOLEAN, response \in PropertyResponses :
                PropertiesCall("initPropertiesIfNeeded", 1,
                               InitProperties(props, capabilityOk, response),
                               capabilityOk /\ HasOutOfRange(response))
    /\ UNCHANGED << codec, maxSubmissions, run, pendingResponse, lastExclusiveSession,
                    sessionData, rsps, call, multi, pol, tkt, res, sas, ctx, dup, qn, att,
                    hc, wire, ser, cmp, bpath, ln, epr >>

PropertiesNext == PropertiesNew \/ PropertiesInitProperties \/ PropertiesInitIfNeeded

SpecProperties == PropertiesInit /\ [][PropertiesNext]_vars

\* C34: over any sequence of InitProperties calls and capability responses,
\* propertiesInitialized is true only while maxBufferSize, maxDigestSize,
\* maxNVBufferSize and minPcrSelectSize are all non-zero; a property value
\* that does not fit its field is rejected with InvalidResponseError and not
\* truncated; and once propertiesInitialized is true initPropertiesIfNeeded
\* issues no command.
C34_InitializedOnlyWhileNonZero ==
    props.pc = "ready" =>
        /\ props.propertiesInitialized
               => /\ props.maxBufferSize # 0 /\ props.maxDigestSize # 0
                  /\ props.maxNVBufferSize # 0 /\ props.minPcrSelectSize # 0
        /\ props.outOfRange => props.err = "InvalidResponseError"
        /\ props.op = "initPropertiesIfNeeded" /\ props.wasInitialized
               => props.commands = 0 /\ props.err = ""

\* The parts of C34 that hold: the call that sets propertiesInitialized
\* leaves all four fields non-zero, out-of-range values are rejected, and
\* initPropertiesIfNeeded issues no command once the flag is set.
C34_SetOnlyWhenNonZero ==
    props.pc = "ready" =>
        /\ props.propertiesInitialized /\ ~props.wasInitialized
               => /\ props.maxBufferSize # 0 /\ props.maxDigestSize # 0
                  /\ props.maxNVBufferSize # 0 /\ props.minPcrSelectSize # 0
        /\ props.outOfRange => props.err = "InvalidResponseError"
        /\ props.op = "initPropertiesIfNeeded" /\ props.wasInitialized
               => props.commands = 0 /\ props.err = ""

\* A second InitProperties whose response lists TPM_PT_MAX_DIGEST as 0
\* fails and leaves the flag set with maxDigestSize = 0.
C34_StaleFlag ==
    /\ props.pc = "ready"
    /\ props.op = "InitProperties" /\ props.wasInitialized
    /\ props.err = "InvalidResponseError"
    /\ props.propertiesInitialized
    /\ props.maxDigestSize = 0

\* ------------------------------------------------------------------------
\* readMultipleHelper over the whole range of uint16 sizes (tpm.go:68-111)
\* ------------------------------------------------------------------------

\* Sizes at both ends of uint16, and chunk sizes of at least 1 that split
\* them into one, two, three or more commands.
ReadSizes == (0..MaxSize) \cup { MaxUint16 - 1, MaxUint16 }

ReadMaxSizes ==
    (1..MaxChunk) \cup { MaxUint16 \div 3, MaxUint16 \div 2, (MaxUint16 + 1) \div 2, MaxUint16 }

ReadSessionLists ==
    { << >>, << [kind |-> "session", type |-> "SessionTypeHMAC", attrs |-> {}] >> }

ReadInit == codec = NoCodec /\ RestInit

\* readMultipleHelper called (tpm.go:99-106) with usable sessions.
ReadBegin ==
    /\ multi.pc = "idle"
    /\ \E size \in ReadSizes, maxSize \in ReadMaxSizes, sessions \in ReadSessionLists :
        multi' = [pc |-> "loop", size |-> size, maxSize |-> maxSize,
                  args |-> sessions, sessionsOrig |-> sessions,
                  sessions |-> WithContinueSession(sessions, Len(sessions)),
                  hasPolicySession |-> HasPolicySession(sessions),
                  remaining |-> size, total |-> 0, log |-> << >>, err |-> ""]
    /\ UNCHANGED << codec, maxSubmissions, run, pendingResponse, lastExclusiveSession,
                    sessionData, rsps, call, pol, tkt, res, sas, ctx, dup, qn, att, hc,
                    wire, ser, cmp, bpath, props, ln, epr >>

ReadNext == ReadBegin \/ MultiRun

SpecRead == ReadInit /\ [][ReadNext]_vars

CeilDiv(a, b) == (a + b - 1) \div b

\* The number of commands of a read that succeeds.
ExpectedCalls(size, maxSize) == Max(1, CeilDiv(size, maxSize))

\* The number of commands that succeeded so far.
SucceededCalls(c) == Cardinality({ i \in 1..Len(c.log) : c.log[i].ok })

\* C35: for a size in 0..65535 and maxSize >= 1, readMultipleHelper makes
\* exactly max(1, ceil(size/maxSize)) exec calls when none fails; call i
\* (0-based) requests offset i*maxSize and min(maxSize, size - i*maxSize)
\* bytes; total + remaining = size after every call, in integers; a read
\* that succeeds has filled the size bytes of its buffer; and the first
\* failing call ends the sequence with its error.
C35_ReadChunks ==
    (multi.pc # "idle" /\ multi.maxSize >= 1) =>
        /\ \A k \in 1..Len(multi.log) :
            /\ multi.log[k].offset = (k - 1) * multi.maxSize
            /\ multi.log[k].size = Min(multi.maxSize, multi.size - (k - 1) * multi.maxSize)
            /\ k < Len(multi.log) => multi.log[k].ok
            /\ k <= ExpectedCalls(multi.size, multi.maxSize)
        /\ multi.total + multi.remaining = multi.size
        /\ multi.total = Min(multi.size, SucceededCalls(multi) * multi.maxSize)
        /\ (multi.pc = "done" /\ multi.err = "")
               => /\ Len(multi.log) = ExpectedCalls(multi.size, multi.maxSize)
                  /\ multi.total = multi.size /\ multi.remaining = 0
        /\ (Len(multi.log) > 0 /\ ~multi.log[Len(multi.log)].ok)
               => multi.pc = "done" /\ multi.err = "exec error"
        /\ (multi.pc = "loop" /\ multi.log # << >>) => multi.log[Len(multi.log)].ok

\* 65535 bytes read in chunks of 32767: three commands, the last of one byte
\* at offset 65534.
C35_Witness ==
    /\ multi.pc = "done" /\ multi.err = ""
    /\ multi.size = MaxUint16 /\ multi.maxSize = MaxUint16 \div 2
    /\ Len(multi.log) = 3
    /\ multi.log[3].offset = MaxUint16 - 1 /\ multi.log[3].size = 1
    /\ multi.total = MaxUint16

C35_WitnessZero ==
    /\ multi.pc = "done" /\ multi.err = "" /\ multi.size = 0 /\ multi.maxSize >= 1
    /\ Len(multi.log) = 1 /\ multi.log[1].size = 0

C35_WitnessAborted ==
    /\ multi.pc = "done" /\ multi.err = "exec error"
    /\ multi.size = MaxUint16 /\ multi.maxSize = MaxUint16 \div 3
    /\ Len(multi.log) = 2
    /\ multi.total = MaxUint16 \div 3

\* execMultipleHelper goes on for as long as its action returns
\* (tpm.go:52-65): every call made is followed by the next step of the loop.
SpecMultiFair == SpecMulti /\ WF_vars(MultiNext)

\* A command of the loop that is not the last one and succeeds leaves
\* fewer bytes remaining.
NonFinalDecreasesRemaining ==
    (/\ multi.pc = "loop" /\ multi'.pc = "loop"
     /\ Len(multi'.log) = Len(multi.log) + 1)
        => multi'.remaining < multi.remaining

\* C36: readMultipleHelper / execMultipleHelper terminates for every size
\* and every maxSize, maxSize = 0 with size > 0 included, provided each exec
\* call returns: every non-final iteration strictly decreases the remaining
\* byte count.
C36_Terminates ==
    /\ [][NonFinalDecreasesRemaining]_vars
    /\ (multi.pc = "loop") ~> (multi.pc = "done")

\* The part of C36 that holds: with maxSize >= 1 every non-final iteration
\* decreases the remaining byte count and the call ends.
C36_TerminatesForPositiveMaxSize ==
    /\ [][(multi.pc = "loop" /\ multi.maxSize >= 1) => NonFinalDecreasesRemaining]_vars
    /\ (multi.pc = "loop" /\ multi.maxSize >= 1) ~> (multi.pc = "done")

\* maxSize = 0 with size > 0: commands of zero bytes at offset 0, one after
\* the other, with nothing read.
C36_ZeroMaxSizeLoops ==
    /\ multi.pc = "loop"
    /\ multi.maxSize = 0 /\ multi.size > 0
    /\ Len(multi.log) = MaxCalls
    /\ \A k \in 1..Len(multi.log) : multi.log[k].size = 0 /\ multi.log[k].ok
    /\ multi.remaining = multi.size

\* ------------------------------------------------------------------------
\* tpmPolicyResources.LoadName frame by frame (policy_test.go:3293-3394):
\* the call for a transient object calls itself for the parent, and its
\* deferred calls run when it returns.
\* ------------------------------------------------------------------------

MaxLoadDepth == 4

LoadNames == { "owner", "persistent", "object", "parent", "nvindex", "missing" }

\* PolicyResourcesData: the persistent resources, the loadable objects with
\* the names of their parents, and the names whose entry has a policy.
LoadData ==
    { [ persistent |-> { "persistent" },
        transient |-> [n \in { "object", "parent" } |-> IF n = "object" THEN p1 ELSE p2],
        policy |-> withPolicy ] :
        p1 \in { "owner", "persistent", "parent", "object", "missing" },
        p2 \in { "owner", "object" },
        withPolicy \in SUBSET { "persistent", "parent" } }

\* The steps of the transient path that can fail.
LoadFailures == { "none", "StartAuthSession", "Execute", "Authorize", "Load" }

NoLoaded == [handle |-> 0, flush |-> FALSE]

LoadResult(rc, policy, err) == [rc |-> rc, policy |-> policy, err |-> err]

Event(id, what) == [id |-> id, what |-> what]

\* resourceContextFlushable.Flush called by frame id (policy_test.go:3262-3267)
FlushResource(tpm, id, rc) ==
    [tpm EXCEPT !.objects = IF rc.flush THEN @ \ { rc.handle } ELSE @,
                !.events = Append(@, Event(id, "parent.Flush"))]

FlushSession(tpm, id, session) ==
    [tpm EXCEPT !.sessions = @ \ { session },
                !.events = Append(@, Event(id, "FlushContext(session)"))]

\* The deferred calls without the parent's Flush.
deferredSessionOnly(tpm, id, parent, session) ==
    IF session # 0 THEN FlushSession(tpm, id, session) ELSE tpm

\* The deferred calls of a frame, last deferred first (policy_test.go:3325,
\* 3336): FlushContext(session) if the session was started, then
\* parent.Flush().
deferred(tpm, id, parent, session) ==
    FlushResource(IF session # 0 THEN FlushSession(tpm, id, session) ELSE tpm, id, parent)

\* The transient path after the parent was loaded (policy_test.go:3320-3363),
\* failing at step fail.
LoadTransient(tpm, id, name, data, parent, fail) ==
    LET session == tpm.next
        started == [tpm EXCEPT !.sessions = @ \cup { session }, !.next = @ + 1,
                               !.events = Append(@, Event(id, "StartAuthSession"))]
        object == started.next
        loaded == [started EXCEPT !.objects = @ \cup { object }, !.next = @ + 1,
                                  !.events = Append(@, Event(id, "Load"))]
    IN  CASE fail = "StartAuthSession" ->
                 [tpm |-> deferred(tpm, id, parent.rc, 0),
                  ret |-> LoadResult(NoLoaded, FALSE, "cannot start session")]
          [] fail = "Execute" ->
                 [tpm |-> deferred(started, id, parent.rc, session),
                  ret |-> LoadResult(NoLoaded, FALSE, "cannot execute policy session")]
          [] fail = "Authorize" ->
                 [tpm |-> deferred(started, id, parent.rc, session),
                  ret |-> LoadResult(NoLoaded, FALSE, "cannot authorize parent")]
          [] fail = "Load" ->
                 [tpm |-> deferred(started, id, parent.rc, session),
                  ret |-> LoadResult(NoLoaded, FALSE, "TPM_RC_FAILURE")]
          [] OTHER ->
                 [tpm |-> deferred(loaded, id, parent.rc, session),
                  ret |-> LoadResult([handle |-> object, flush |-> TRUE],
                                     name \in data.policy, "")]

Frame(id, name, stage) == [id |-> id, name |-> name, stage |-> stage]

\* A frame has returned: its caller, if any, goes on with the result.
Returned(l, tpm, ret, frame) ==
    [l EXCEPT !.stack = SubSeq(@, 1, Len(@) - 1),
              !.tpm = tpm,
              !.ret = ret,
              !.finished = Append(@, [id |-> frame.id, name |-> frame.name, err |-> ret.err,
                                      transient |-> frame.stage = "parent"]),
              !.pc = IF Len(l.stack) = 1 THEN "done" ELSE "running"]

LoadNameInit == codec = NoCodec /\ RestInit

\* LoadName(name, policyParams) is called; the caller has one object loaded.
LoadNameCall ==
    /\ ln.pc = "idle"
    /\ \E name \in LoadNames, data \in LoadData :
        ln' = [pc |-> "running", name |-> name, data |-> data,
               stack |-> << Frame(1, name, "enter") >>, frames |-> 1,
               tpm |-> [objects |-> { 1 }, sessions |-> { }, next |-> 2, events |-> << >>],
               ret |-> LoadResult(NoLoaded, FALSE, ""), finished |-> << >>]
    /\ UNCHANGED << codec, maxSubmissions, run, pendingResponse, lastExclusiveSession,
                    sessionData, rsps, call, multi, pol, tkt, res, sas, ctx, dup, qn, att,
                    hc, wire, ser, cmp, bpath, props, epr >>

\* The frame on top looks the name up (policy_test.go:3293-3322, 3368-3393):
\* a permanent, persistent or TPM-resident resource is returned with no flush
\* function, and for a loadable object LoadName is called with ParentName.
LoadNameEnter ==
    /\ ln.pc = "running"
    /\ LET frame == ln.stack[Len(ln.stack)]
           name == frame.name
       IN  /\ frame.stage = "enter"
           /\ IF name = "owner"
              THEN ln' = Returned(ln, ln.tpm,
                                  LoadResult([handle |-> HandleOwner, flush |-> FALSE],
                                             FALSE, ""), frame)
              ELSE IF name \in ln.data.persistent
              THEN \E ok \in BOOLEAN :
                       ln' = Returned(ln, ln.tpm,
                                      IF ok
                                      THEN LoadResult([handle |-> PersistentHandle,
                                                       flush |-> FALSE],
                                                      name \in ln.data.policy, "")
                                      ELSE LoadResult(NoLoaded, FALSE,
                                                      "NewResourceContext error"),
                                      frame)
              ELSE IF name \in DOMAIN ln.data.transient
              THEN /\ Len(ln.stack) < MaxLoadDepth
                   /\ ln' = [ln EXCEPT
                                !.stack = Append([@ EXCEPT ![Len(@)].stage = "parent"],
                                                 Frame(ln.frames + 1,
                                                       ln.data.transient[name], "enter")),
                                !.frames = @ + 1]
              ELSE IF name = "nvindex"
              THEN ln' = Returned(ln, ln.tpm,
                                  LoadResult([handle |-> PersistentHandle, flush |-> FALSE],
                                             FALSE, ""), frame)
              ELSE ln' = Returned(ln, ln.tpm,
                                  LoadResult(NoLoaded, FALSE, "resource not found"), frame)
    /\ UNCHANGED << codec, maxSubmissions, run, pendingResponse, lastExclusiveSession,
                    sessionData, rsps, call, multi, pol, tkt, res, sas, ctx, dup, qn, att,
                    hc, wire, ser, cmp, bpath, props, epr >>

\* The call for the parent has returned to the frame on top
\* (policy_test.go:3321-3363).
LoadNameResume ==
    /\ ln.pc = "running"
    /\ LET frame == ln.stack[Len(ln.stack)]
       IN  /\ frame.stage = "parent"
           /\ IF ln.ret.err # ""
              THEN ln' = Returned(ln, ln.tpm,
                                  LoadResult(NoLoaded, FALSE, "cannot load parent"), frame)
              ELSE \E fail \in LoadFailures, authValueNeeded \in BOOLEAN :
                     /\ fail = "Execute" => ln.ret.policy
                     /\ fail = "Authorize" => (~ln.ret.policy \/ authValueNeeded)
                     /\ LET r == LoadTransient(ln.tpm, frame.id, frame.name, ln.data,
                                               ln.ret, fail)
                        IN  ln' = Returned(ln, r.tpm, r.ret, frame)
    /\ UNCHANGED << codec, maxSubmissions, run, pendingResponse, lastExclusiveSession,
                    sessionData, rsps, call, multi, pol, tkt, res, sas, ctx, dup, qn, att,
                    hc, wire, ser, cmp, bpath, props, epr >>

LoadNameNext == LoadNameCall \/ LoadNameEnter \/ LoadNameResume

SpecLoadName == LoadNameInit /\ [][LoadNameNext]_vars

\* Every call that is made returns and the caller goes on.
SpecLoadNameFair == SpecLoadName /\ WF_vars(LoadNameNext)

\* C37: LoadName terminates, with a resource or an error, for every name and
\* every PolicyResourcesData, data in which the ParentName of a transient
\* entry leads back to the entry's own name included: no name is looked up
\* in two frames of one call, and the call returns.
C37_LoadNameTerminates ==
    /\ [](ln.pc = "running" =>
            \A i, j \in 1..Len(ln.stack) : i # j => ln.stack[i].name # ln.stack[j].name)
    /\ (ln.pc = "running") ~> (ln.pc = "done")

Acyclic(data) ==
    /\ data.transient["object"] # "object"
    /\ ~(data.transient["object"] = "parent" /\ data.transient["parent"] = "object")

\* The part of C37 that holds: when no ParentName leads back to the entry,
\* LoadName returns.
C37_TerminatesWithoutCycle ==
    (ln.pc = "running" /\ (ln.name \in { "object", "parent" } => Acyclic(ln.data)))
        ~> (ln.pc = "done")

\* The object is its own parent: every frame calls LoadName for the same
\* name again.
C37_SelfParentRecurses ==
    /\ ln.pc = "running"
    /\ ln.data.transient["object"] = "object"
    /\ Len(ln.stack) = MaxLoadDepth
    /\ \A i \in 1..Len(ln.stack) : ln.stack[i].name = "object"
    /\ ln.finished = << >>

EventCount(events, id, what) ==
    Cardinality({ i \in DOMAIN events : events[i] = Event(id, what) })

\* C38: in the transient-object path of LoadName, on every return path
\* (success, or failure of session start, policy execution, authorization
\* or TPM2_Load) the loaded parent's Flush is invoked exactly once and the
\* authorization session, once started, is flushed exactly once; on failure
\* nothing that LoadName loaded stays loaded, and on success only the
\* returned object does.
C38_LoadNameFlushes ==
    ln.pc \in { "running", "done" } =>
        /\ \A k \in 1..Len(ln.finished) :
            LET f == ln.finished[k]
                parentLoaded == f.err # "cannot load parent"
                started == EventCount(ln.tpm.events, f.id, "StartAuthSession")
            IN  f.transient =>
                    /\ EventCount(ln.tpm.events, f.id, "parent.Flush")
                           = (IF parentLoaded THEN 1 ELSE 0)
                    /\ started <= 1
                    /\ EventCount(ln.tpm.events, f.id, "FlushContext(session)") = started
                    /\ (parentLoaded /\ f.err # "cannot start session") => started = 1
        /\ ln.pc = "done" =>
            /\ ln.tpm.sessions = { }
            /\ ln.tpm.objects =
                   { 1 } \cup (IF ln.ret.err = "" /\ ln.ret.rc.flush
                               THEN { ln.ret.rc.handle } ELSE { })
            /\ ln.ret.err # "" => ln.ret.rc = NoLoaded

\* The object was loaded under a parent that LoadName loaded for it: the
\* parent and both sessions are flushed, the object stays.
C38_Witness ==
    /\ ln.pc = "done" /\ ln.ret.err = ""
    /\ ln.name = "object" /\ ln.data.transient["object"] = "parent"
    /\ EventCount(ln.tpm.events, 1, "Load") = 1
    /\ EventCount(ln.tpm.events, 2, "Load") = 1
    /\ EventCount(ln.tpm.events, 1, "parent.Flush") = 1
    /\ EventCount(ln.tpm.events, 1, "FlushContext(session)") = 1
    /\ ln.tpm.objects = { 1, ln.ret.rc.handle }

\* TPM2_Load of the object fails after its parent was loaded: nothing stays.
C38_WitnessLoadFails ==
    /\ ln.pc = "done" /\ ln.ret.err = "TPM_RC_FAILURE"
    /\ ln.name = "object" /\ ln.data.transient["object"] = "parent"
    /\ EventCount(ln.tpm.events, 2, "Load") = 1
    /\ EventCount(ln.tpm.events, 1, "parent.Flush") = 1
    /\ ln.tpm.objects = { 1 } /\ ln.tpm.sessions = { }

C38_WitnessSessionFails ==
    /\ ln.pc = "done" /\ ln.ret.err = "cannot start session"
    /\ ln.data.transient[ln.name] = "parent"
    /\ EventCount(ln.tpm.events, 1, "parent.Flush") = 1
    /\ EventCount(ln.tpm.events, 1, "FlushContext(session)") = 0
    /\ ln.tpm.objects = { 1 }

C38_WitnessPolicyFails ==
    /\ ln.pc = "done" /\ ln.ret.err = "cannot execute policy session"
    /\ EventCount(ln.tpm.events, 1, "FlushContext(session)") = 1
    /\ ln.tpm.objects = { 1 } /\ ln.tpm.sessions = { }

\* ------------------------------------------------------------------------
\* executePolicyResources: the caches in front of a PolicyResources
\* implementation (policy_test.go:3482-3605)
\* ------------------------------------------------------------------------

MaxResourceCalls == 3

CachedNames == { "object", "index" }

\* (keySign, policyRef) and (authName, policyRef) pairs, as policyParamKey
\* maps them: one value per pair.
ParamKeys == { "key1/ref", "key2/ref" }

NilPolicy == "nil"

CachedPolicies == { NilPolicy, "policy" }

PolicyLists == { << >>, << "authorized" >> }

\* Tickets: the key they are stored under and what else they hold.
PolicyTickets == { [key |-> k, digest |-> d] : k \in ParamKeys, d \in { "d1", "d2" } }

TicketLists ==
    { << >> } \cup { << t >> : t \in PolicyTickets }
        \cup { << [key |-> "key1/ref", digest |-> "d1"], u >> :
                  u \in { x \in PolicyTickets : x.digest = "d2" } }

NoTicket == [key |-> "", digest |-> ""]

NoCached == [typ |-> "none", policy |-> NilPolicy]

\* policy_test.go:3566-3571: the map is emptied and the tickets are stored
\* one by one under their key, a later one replacing an earlier one.
RECURSIVE StoreTickets(_, _)
StoreTickets(map, tickets) ==
    IF tickets = << >> THEN map
    ELSE StoreTickets([map EXCEPT ![Head(tickets).key] = Head(tickets)], Tail(tickets))

EmptyTickets == [k \in ParamKeys |-> NoTicket]

TicketSet(map) == { map[k] : k \in ParamKeys } \ { NoTicket }

Range(s) == { s[i] : i \in DOMAIN s }

\* What the PolicyResources implementation answers when it is asked.
LoadNameAnswers ==
    { [err |-> "LoadName error", transient |-> FALSE, policy |-> NilPolicy,
       tickets |-> << >>, saved |-> FALSE] }
    \cup { a \in [err : { "" }, transient : BOOLEAN, policy : CachedPolicies,
                  tickets : TicketLists, saved : BOOLEAN] :
               ~a.transient => a.saved }

LoadPolicyAnswers ==
    { [err |-> "LoadPolicy error", policy |-> NilPolicy] }
    \cup { [err |-> "", policy |-> p] : p \in CachedPolicies }

LoadAuthorizedPoliciesAnswers ==
    { [err |-> "LoadAuthorizedPolicies error", policies |-> << >>] }
    \cup { [err |-> "", policies |-> l] : l \in PolicyLists }

\* executePolicyResources.loadName (policy_test.go:3509-3574).  usable: the
\* cached data can be turned into a loaded resource again.
cachedLoadName(r, name, usable, answer) ==
    LET entry == r.cached[name]
    IN  IF entry.typ \in { "resource", "context" } /\ usable
        THEN [r |-> r, policy |-> entry.policy, err |-> "", asked |-> FALSE]
        ELSE IF answer.err # ""
        THEN [r |-> r, policy |-> NilPolicy, err |-> answer.err, asked |-> TRUE]
        ELSE LET cached ==
                     IF answer.transient
                     THEN IF answer.saved
                          THEN [r.cached EXCEPT ![name] = [typ |-> "context",
                                                            policy |-> answer.policy]]
                          ELSE r.cached
                     ELSE [r.cached EXCEPT ![name] = [typ |-> "resource",
                                                       policy |-> answer.policy]]
             IN  [r |-> [r EXCEPT !.cached = cached,
                                  !.tickets = StoreTickets(EmptyTickets, answer.tickets)],
                  policy |-> answer.policy, err |-> "", asked |-> TRUE]

\* loadPolicy asking the implementation whether or not the name is cached.
loadPolicyUncached(r, name, answer) ==
    IF answer.err # ""
    THEN [r |-> r, policy |-> NilPolicy, err |-> answer.err, asked |-> TRUE]
    ELSE [r |-> [r EXCEPT !.cached[name] = [typ |-> "policy", policy |-> answer.policy]],
          policy |-> answer.policy, err |-> "", asked |-> TRUE]

\* executePolicyResources.loadPolicy (policy_test.go:3576-3591)
loadPolicy(r, name, answer) ==
    IF r.cached[name].typ # "none"
    THEN [r |-> r, policy |-> r.cached[name].policy, err |-> "", asked |-> FALSE]
    ELSE IF answer.err # ""
    THEN [r |-> r, policy |-> NilPolicy, err |-> answer.err, asked |-> TRUE]
    ELSE [r |-> [r EXCEPT !.cached[name] = [typ |-> "policy", policy |-> answer.policy]],
          policy |-> answer.policy, err |-> "", asked |-> TRUE]

\* executePolicyResources.loadAuthorizedPolicies (policy_test.go:3593-3605)
loadAuthorizedPolicies(r, key, answer) ==
    IF r.authorizedPolicies[key].exists
    THEN [r |-> r, policies |-> r.authorizedPolicies[key].policies, err |-> "",
          asked |-> FALSE]
    ELSE IF answer.err # ""
    THEN [r |-> r, policies |-> << >>, err |-> answer.err, asked |-> TRUE]
    ELSE [r |-> [r EXCEPT !.authorizedPolicies[key] =
                              [exists |-> TRUE, policies |-> answer.policies]],
          policies |-> answer.policies, err |-> "", asked |-> TRUE]

ExecuteResourcesInit == codec = NoCodec /\ RestInit

NoAnswer == [policy |-> NilPolicy, policies |-> << >>, tickets |-> << >>]

LastCall(op, arg, before, asked, err, policy, policies, answer) ==
    [op |-> op, arg |-> arg, before |-> before, asked |-> asked, err |-> err,
     policy |-> policy, policies |-> policies, answer |-> answer]

\* newExecutePolicyResources (policy_test.go:3497-3507) with the tickets of
\* the Execute call.
ExecuteResourcesNew ==
    /\ epr.pc = "idle"
    /\ \E tickets \in { << >>, << [key |-> "key1/ref", digest |-> "d1"] >> } :
        epr' = [pc |-> "ready",
                cached |-> [n \in CachedNames |-> NoCached],
                authorizedPolicies |->
                    [k \in ParamKeys |-> [exists |-> FALSE, policies |-> << >>]],
                tickets |-> StoreTickets(EmptyTickets, tickets),
                calls |-> 0,
                succeeded |-> [k \in ParamKeys |-> 0],
                last |-> LastCall("new", "", NoCached, FALSE, "", NilPolicy, << >>, NoAnswer)]
    /\ UNCHANGED << codec, maxSubmissions, run, pendingResponse, lastExclusiveSession,
                    sessionData, rsps, call, multi, pol, tkt, res, sas, ctx, dup, qn, att,
                    hc, wire, ser, cmp, bpath, props, ln >>

ExecuteResourcesLoadName ==
    /\ epr.pc = "ready" /\ epr.calls < MaxResourceCalls
    /\ \E name \in CachedNames, usable \in BOOLEAN, answer \in LoadNameAnswers :
        LET c == cachedLoadName(epr, name, usable, answer)
        IN  epr' = [c.r EXCEPT
                       !.calls = @ + 1,
                       !.last = LastCall("loadName", name, epr.cached[name], c.asked, c.err,
                                         c.policy, << >>,
                                         IF c.asked
                                         THEN [policy |-> answer.policy, policies |-> << >>,
                                               tickets |-> answer.tickets]
                                         ELSE NoAnswer)]
    /\ UNCHANGED << codec, maxSubmissions, run, pendingResponse, lastExclusiveSession,
                    sessionData, rsps, call, multi, pol, tkt, res, sas, ctx, dup, qn, att,
                    hc, wire, ser, cmp, bpath, props, ln >>

ExecuteResourcesLoadPolicy ==
    /\ epr.pc = "ready" /\ epr.calls < MaxResourceCalls
    /\ \E name \in CachedNames, answer \in LoadPolicyAnswers :
        LET c == loadPolicy(epr, name, answer)
        IN  epr' = [c.r EXCEPT
                       !.calls = @ + 1,
                       !.last = LastCall("loadPolicy", name, epr.cached[name], c.asked, c.err,
                                         c.policy, << >>,
                                         IF c.asked
                                         THEN [policy |-> answer.policy, policies |-> << >>,
                                               tickets |-> << >>]
                                         ELSE NoAnswer)]
    /\ UNCHANGED << codec, maxSubmissions, run, pendingResponse, lastExclusiveSession,
                    sessionData, rsps, call, multi, pol, tkt, res, sas, ctx, dup, qn, att,
                    hc, wire, ser, cmp, bpath, props, ln >>

ExecuteResourcesLoadAuthorizedPolicies ==
    /\ epr.pc = "ready" /\ epr.calls < MaxResourceCalls
    /\ \E key \in ParamKeys, answer \in LoadAuthorizedPoliciesAnswers :
        LET c == loadAuthorizedPolicies(epr, key, answer)
        IN  epr' = [c.r EXCEPT
                       !.calls = @ + 1,
                       !.succeeded[key] = IF c.asked /\ c.err = "" THEN @ + 1 ELSE @,
                       !.last = LastCall("loadAuthorizedPolicies", key,
                                         [typ |-> IF epr.authorizedPolicies[key].exists
                                                  THEN "policies" ELSE "none",
                                          policy |-> NilPolicy],
                                         c.asked, c.err, NilPolicy, c.policies,
                                         IF c.asked
                                         THEN [policy |-> NilPolicy,
                                               policies |-> answer.policies,
                                               tickets |-> << >>]
                                         ELSE NoAnswer)]
    /\ UNCHANGED << codec, maxSubmissions, run, pendingResponse, lastExclusiveSession,
                    sessionData, rsps, call, multi, pol, tkt, res, sas, ctx, dup, qn, att,
                    hc, wire, ser, cmp, bpath, props, ln >>

ExecuteResourcesNext ==
    \/ ExecuteResourcesNew
    \/ ExecuteResourcesLoadName
    \/ ExecuteResourcesLoadPolicy
    \/ ExecuteResourcesLoadAuthorizedPolicies

SpecExecuteResources == ExecuteResourcesInit /\ [][ExecuteResourcesNext]_vars

\* What C39 says of loadAuthorizedPolicies and loadPolicy, and that a call
\* which writes a cache entry records the policy it was answered with.
CachesAnswerOnce ==
    epr.pc = "ready" =>
        /\ \A k \in ParamKeys : epr.succeeded[k] <= 1
        /\ (epr.last.op = "loadAuthorizedPolicies" /\ epr.last.before.typ # "none")
               => /\ ~epr.last.asked /\ epr.last.err = ""
                  /\ epr.last.policies = epr.authorizedPolicies[epr.last.arg].policies
        /\ (epr.last.op = "loadAuthorizedPolicies" /\ epr.last.asked /\ epr.last.err = "")
               => epr.authorizedPolicies[epr.last.arg] =
                      [exists |-> TRUE, policies |-> epr.last.answer.policies]
        /\ (epr.last.op = "loadPolicy" /\ epr.last.before.typ # "none")
               => /\ ~epr.last.asked /\ epr.last.err = ""
                  /\ epr.last.policy = epr.last.before.policy
                  /\ epr.cached[epr.last.arg] = epr.last.before
        /\ (epr.last.op \in { "loadPolicy", "loadName" } /\ epr.last.asked
            /\ epr.cached[epr.last.arg] # epr.last.before)
               => epr.cached[epr.last.arg].policy = epr.last.answer.policy

LoadedFromResources ==
    epr.pc = "ready" /\ epr.last.op = "loadName" /\ epr.last.asked /\ epr.last.err = ""

\* C39 as stated: within one executePolicyResources instance, for any
\* sequence of loadName, loadPolicy and loadAuthorizedPolicies calls, the
\* underlying LoadAuthorizedPolicies succeeds at most once per (keySign,
\* policyRef) and later calls return the cached list; loadPolicy never calls
\* the underlying LoadPolicy for a name that has a cache entry and returns
\* the policy recorded by the earlier loadName or loadPolicy; and after
\* loadName loads from the underlying resources the ticket set is exactly
\* the tickets that LoadName returned.
C39_TicketsExactlyReturned ==
    /\ CachesAnswerOnce
    /\ LoadedFromResources => TicketSet(epr.tickets) = Range(epr.last.answer.tickets)

\* The last ticket of the list for key k, NoTicket when there is none.
LastTicketFor(tickets, k) ==
    IF \E i \in DOMAIN tickets : tickets[i].key = k
    THEN tickets[CHOOSE i \in DOMAIN tickets :
                     /\ tickets[i].key = k
                     /\ \A j \in DOMAIN tickets : tickets[j].key = k => j <= i]
    ELSE NoTicket

\* C39, amended: the same for the two caches; after loadName loads from the
\* underlying resources the ticket set holds, for each (authName,
\* policyRef), the last ticket LoadName returned for it and nothing else:
\* exactly the returned tickets when no two of them share authName and
\* policyRef.
C39_TicketsLastPerKey ==
    /\ CachesAnswerOnce
    /\ LoadedFromResources =>
           /\ \A k \in ParamKeys : epr.tickets[k] = LastTicketFor(epr.last.answer.tickets, k)
           /\ TicketSet(epr.tickets) \subseteq Range(epr.last.answer.tickets)
           /\ (\A i, j \in DOMAIN epr.last.answer.tickets :
                   i # j => epr.last.answer.tickets[i].key # epr.last.answer.tickets[j].key)
                  => TicketSet(epr.tickets) = Range(epr.last.answer.tickets)

\* loadName went to the resources although tickets were held, and the
\* tickets are now the two it was answered with.
C39_Witness ==
    /\ LoadedFromResources
    /\ epr.calls >= 2
    /\ Len(epr.last.answer.tickets) = 2
    /\ TicketSet(epr.tickets) = Range(epr.last.answer.tickets)
    /\ Cardinality(TicketSet(epr.tickets)) = 2

\* Two tickets for one (authName, policyRef) were returned: one is kept.
C39_WitnessSameKey ==
    /\ LoadedFromResources
    /\ Len(epr.last.answer.tickets) = 2
    /\ epr.last.answer.tickets[1].key = epr.last.answer.tickets[2].key
    /\ TicketSet(epr.tickets) = { epr.last.answer.tickets[2] }

\* loadPolicy answered from the entry that loadName wrote.
C39_WitnessPolicyFromLoadName ==
    /\ epr.pc = "ready" /\ epr.last.op = "loadPolicy" /\ ~epr.last.asked
    /\ epr.last.before.typ = "context"
    /\ epr.last.policy = "policy"

C39_WitnessAuthorizedCached ==
    /\ epr.pc = "ready" /\ epr.last.op = "loadAuthorizedPolicies" /\ ~epr.last.asked
    /\ epr.last.policies = << "authorized" >>
    /\ epr.succeeded[epr.last.arg] = 1

\* ------------------------------------------------------------------------
\* StartAuthSession: what is rejected before the command, and when the
\* session context is registered (SpecSessionStart)
\* ------------------------------------------------------------------------

UnsupportedArguments ==
    \/ sas.tpmKey # NilContext
    \/ sas.symmetric
    \/ DigestSize(sas.authHash) = 0
    \/ sas.bind # NilContext /\ sas.authValue.type \notin { "nil", "string", "[]byte" }

C40_WitnessInvalidAuthValue ==
    /\ sas.pc = "done"
    /\ sas.tpmKey = NilContext /\ ~sas.symmetric /\ sas.authHash = "SHA256"
    /\ sas.bind = ObjectHandle /\ sas.bindValid /\ sas.authValue.type = "int"
    /\ sas.err = "invalid auth value" /\ ~sas.sent /\ sas.resources = { }

C40_WitnessRegistered ==
    /\ sas.pc = "done" /\ sas.err = "" /\ sas.sent
    /\ sas.resources = { sas.session.handle }

C40_WitnessNonce ==
    /\ sas.pc = "done" /\ sas.err = "cannot compute initial nonceCaller"
    /\ ~sas.sent /\ sas.resources = { }

====
